---- MODULE Spec2Model ----
(***************************************************************************)
(* A model of go-authgate/device-cli: the token store (saveTokens with its *)
(* marker-file lock) and the RFC 8628 polling engine.                      *)
(*                                                                         *)
(* Store part: every system call of saveTokens / acquireFileLock /         *)
(* fileLock.release is one action, so that every interleaving of several   *)
(* OS processes saving into the same token file is a behaviour.            *)
(* SpecSave follows one saving process whose system calls can fail, and    *)
(* SpecRun one run of the orchestrator with the calls of the Displayer.     *)
(***************************************************************************)
EXTENDS Integers, Sequences, FiniteSets, TLC

VARIABLES
    marker,     \* the file at tokenFile + ".lock"
    tokenFile,  \* the file at the canonical path
    tempFile,   \* the file at tokenFile + ".tmp"
    pc,         \* per process: the next system call of its saveTokens
    i,          \* per process: loop counter of acquireFileLock
    data,       \* per process: the marshalled storageMap it is about to write
    snap,       \* per process: the storageMap.Tokens it read under the lock
    fdAt,       \* per process: where the inode of its open temp-file handle now lives
    result,     \* per process: what saveTokens returned
    initialFile,\* the token file as it was before the first save began
    slept,      \* per process: calls of time.Sleep in its acquireFileLock
    removed,    \* per process: calls of os.Remove(lockPath) in its acquireFileLock
    releaseErr, \* per process: what its last fileLock.release returned
    fresh,      \* the processes holding a lock acquired less than 30 seconds ago
    tokenMode,  \* permission bits of the file at the canonical path
    tempMode,   \* permission bits of the file at tokenFile + ".tmp"
    unmarshalErr, \* per process: whether json.Unmarshal of the file it read failed
    arg,        \* per process: the record it passes to saveTokens
    ioErr,      \* per process: the system calls of its saveTokens that failed for
                \* a reason other than a file being there or not being there
    interval,           \* deviceAuth.Interval, in seconds, as the server sent it
    pollInterval,       \* pollForTokenWithProgress: pollInterval, in microseconds
    backoffMultiplier,  \* backoffMultiplier, kept as its exponent k: the float is 1.5^k
    tickerPeriod,       \* the period pollTicker currently runs at (0: no ticker yet)
    loc,                \* where pollForTokenWithProgress is
    attempts,           \* calls of exchangeDeviceCode issued so far
    ctxErr,             \* ctx.Err(): "none" until the context is done
    callCtxDone,        \* whether ctx was done already when the last exchange began
    lastOutcome,        \* what the last finished exchangeDeviceCode returned
    retToken,           \* the token returned (0: nil)
    retErr,             \* the error returned
    slowDownsNotified,  \* calls of d.PollSlowDown so far
    notifiedInterval,   \* the argument of the last d.PollSlowDown
    rloc,       \* where run is
    cached,     \* the record loadTokens returned to run
    loadErr,    \* the error loadTokens returned to run
    runStorage, \* run: the variable storage
    refreshes,  \* calls of refreshAccessToken so far
    flows,      \* calls of performDeviceFlow so far
    saveCalls,  \* calls of saveTokens so far
    lastArg,    \* the refresh token passed to the last refreshAccessToken
    lastReply,  \* the server's reply to the last refresh or device-grant exchange
    lastErr,    \* the error the last refreshAccessToken or performDeviceFlow returned
    lastSave,   \* what the last saveTokens returned
    runErr,     \* the error run returned
    lastValidation, \* what validateTokenResponse returned for the last 200 reply
    fatals,     \* calls of d.Fatal so far
    lastNote,   \* the last method of the Displayer that was called
    apiCall,    \* the API requests and the refreshes of the current
                \* makeAPICallWithAutoRefresh
    state,      \* Model.state of the TUI after the messages sent so far
    leftFinal   \* whether a message took the TUI out of stateSuccess or stateError

storeVars == <<marker, tokenFile, tempFile, pc, i, data, snap, fdAt, result,
               initialFile, slept, removed, releaseErr, fresh, tokenMode, tempMode,
               unmarshalErr, ioErr, arg>>

pollVars == <<interval, pollInterval, backoffMultiplier, tickerPeriod, loc, attempts,
              ctxErr, callCtxDone, lastOutcome, retToken, retErr, slowDownsNotified,
              notifiedInterval>>

runVars == <<rloc, cached, loadErr, runStorage, refreshes, flows, saveCalls, lastArg,
             lastReply, lastErr, lastSave, runErr, lastValidation, fatals, lastNote,
             apiCall, state, leftFinal>>

vars == <<storeVars, pollVars, runVars>>

-----------------------------------------------------------------------------
(* Bounds and program constants *)

NumProcs == 2
Procs == 1..NumProcs

\* acquireFileLock: maxRetries := 50
maxRetries == 50

-----------------------------------------------------------------------------
(* Files *)

EmptyMap == [c \in {} |-> 0]

\* A file is absent, a complete serialized TokenStorageMap ("doc"), bytes that
\* do not parse ("corrupt"), a file truncated by O_TRUNC and not yet written
\* ("empty"), or interleaved bytes of two writers ("torn").
File(kind, tokens) == [kind |-> kind, tokens |-> tokens]
Absent == File("absent", EmptyMap)
Doc(tokens) == File("doc", tokens)

\* TokenStorage: the record of one client.
TokenStorage(accessToken, cid) == [AccessToken |-> accessToken, ClientID |-> cid]

\* The record process p passes to saveTokens: its own client id, its own token.
StorageOf(p) == TokenStorage(p, p)

\* A client id no process of the model uses, and a token none of them writes.
OtherClient == 0
OldToken == 0

\* The empty client id of a record whose ClientID was never set.
NoClientID == -1

\* A save that stores the record as it came.
StampNothing(storage, cid) == storage

\* saveTokens, lines 690-693: a record without client id gets the configured
\* one, which for process p of the store model is p.
Stamp(storage, cid) ==
    IF storage.ClientID = NoClientID THEN [storage EXCEPT !.ClientID = cid] ELSE storage

\* Whether json.Unmarshal of the file's bytes fails. A document without a
\* "tokens" member ("nokey") parses, and leaves storageMap.Tokens nil.
Unparsable(f) == f.kind \in {"corrupt", "empty", "torn"}

\* json.Unmarshal of the file into storageMap, as saveTokens uses it: the
\* tokens of a well-formed document, and an empty map for a missing file or
\* one that does not parse.
LoadMap(f) == IF f.kind = "doc" THEN f.tokens ELSE EmptyMap

\* storageMap.Tokens[storage.ClientID] = storage
Merge(tokens, storage) ==
    [c \in DOMAIN tokens \cup {storage.ClientID} |->
        IF c = storage.ClientID THEN storage ELSE tokens[c]]

\* The lock marker: absent, or created by `owner` (0: a process that died
\* holding it) and older than 30 seconds or not.
NoMarker == [exists |-> FALSE, owner |-> 0, stale |-> FALSE]
Marker(owner, stale) == [exists |-> TRUE, owner |-> owner, stale |-> stale]

-----------------------------------------------------------------------------
(* Initial states: a token file left by earlier runs, possibly a marker left *)
(* by a process that died more than 30 seconds ago.                          *)

InitialFiles ==
    { Absent,
      File("corrupt", EmptyMap),
      File("nokey", EmptyMap),
      Doc(Merge(EmptyMap, TokenStorage(OldToken, OtherClient))),
      Doc(Merge(Merge(EmptyMap, TokenStorage(OldToken, OtherClient)),
                TokenStorage(OldToken, 1))) }

\* What the directory holds before the saves: the token file and its
\* permission bits, and possibly a temp file left behind by a save that died
\* or put there by someone else, with permission bits of its own.
Disk(file, mode, temp, tmode) ==
    [file |-> file, mode |-> mode, temp |-> temp, tmode |-> tmode]

LeftOver == File("torn", EmptyMap)

InitialDisks ==
    { Disk(Absent, "none", Absent, "none"),
      Disk(Absent, "none", LeftOver, "0644"),
      Disk(File("corrupt", EmptyMap), "0600", Absent, "none"),
      Disk(File("nokey", EmptyMap), "0644", Absent, "none"),
      Disk(Doc(Merge(EmptyMap, TokenStorage(OldToken, OtherClient))), "0644",
           LeftOver, "0600"),
      Disk(Doc(Merge(EmptyMap, TokenStorage(OldToken, OtherClient))), "0600",
           Absent, "none"),
      Disk(Doc(Merge(Merge(EmptyMap, TokenStorage(OldToken, OtherClient)),
                     TokenStorage(OldToken, 1))), "0600", LeftOver, "0644") }

\* The locals of saveTokens and acquireFileLock before the call.
ProcsStart ==
    /\ pc = [p \in Procs |-> "create"]
    /\ i = [p \in Procs |-> 0]
    /\ data = [p \in Procs |-> EmptyMap]
    /\ snap = [p \in Procs |-> EmptyMap]
    /\ fdAt = [p \in Procs |-> "none"]
    /\ result = [p \in Procs |-> "running"]
    /\ slept = [p \in Procs |-> 0]
    /\ removed = [p \in Procs |-> 0]
    /\ releaseErr = [p \in Procs |-> "none"]
    /\ fresh = {}
    /\ unmarshalErr = [p \in Procs |-> FALSE]
    /\ ioErr = [p \in Procs |-> {}]

\* Every process saves its own record.
OwnRecords == arg = [p \in Procs |-> StorageOf(p)]

StoreStart ==
    /\ OwnRecords
    /\ marker \in {NoMarker, Marker(0, TRUE)}
    /\ \E d \in InitialDisks :
          /\ d.file \in InitialFiles
          /\ tokenFile = d.file
          /\ tokenMode = d.mode
          /\ tempFile = d.temp
          /\ tempMode = d.tmode
    /\ initialFile = tokenFile
    /\ ProcsStart

-----------------------------------------------------------------------------
(* acquireFileLock *)

\* A loop that allows one attempt more.
NextAttemptOneMore(p) ==
    /\ i' = [i EXCEPT ![p] = i[p] + 1]
    /\ IF i[p] + 1 <= maxRetries
       THEN /\ pc' = [pc EXCEPT ![p] = "create"]
            /\ result' = result
       ELSE /\ pc' = [pc EXCEPT ![p] = "done"]
            /\ result' = [result EXCEPT ![p] = "lock_timeout"]

\* The for statement's post statement and condition: i++, then either the
\* next attempt or the timeout error after the loop, which saveTokens returns.
NextAttempt(p) ==
    /\ i' = [i EXCEPT ![p] = i[p] + 1]
    /\ IF i[p] + 1 < maxRetries
       THEN /\ pc' = [pc EXCEPT ![p] = "create"]
            /\ result' = result
       ELSE /\ pc' = [pc EXCEPT ![p] = "done"]
            /\ result' = [result EXCEPT ![p] = "lock_timeout"]

\* os.OpenFile(lockPath, O_CREATE|O_EXCL|O_WRONLY, 0600). On success
\* acquireFileLock returns the lock: "read" is the caller's next statement.
TryCreate(p) ==
    /\ pc[p] = "create"
    /\ IF marker.exists
       THEN /\ pc' = [pc EXCEPT ![p] = "stat"]
            /\ UNCHANGED <<marker, i, slept, removed, fresh>>
       ELSE /\ marker' = Marker(p, FALSE)
            /\ pc' = [pc EXCEPT ![p] = "read"]
            /\ i' = [i EXCEPT ![p] = 0]      \* the loop's locals die on return
            /\ slept' = [slept EXCEPT ![p] = 0]
            /\ removed' = removed
            /\ fresh' = fresh \cup {p}
    /\ UNCHANGED <<tokenFile, tempFile, data, snap, fdAt, result>>
    /\ UNCHANGED <<releaseErr, tokenMode, tempMode>>
    /\ UNCHANGED <<initialFile, unmarshalErr, ioErr, arg, pollVars, runVars>>

\* os.Stat(lockPath) and the age test; time.Sleep(retryDelay) when the marker
\* is not stale or is gone.
StatMarker(p) ==
    /\ pc[p] = "stat"
    /\ IF marker.exists /\ marker.stale
       THEN /\ pc' = [pc EXCEPT ![p] = "remove"]
            /\ UNCHANGED <<i, result, slept>>
       ELSE /\ slept' = [slept EXCEPT ![p] = slept[p] + 1]
            /\ NextAttempt(p)
    /\ UNCHANGED <<marker, tokenFile, tempFile, data, snap, fdAt>>
    /\ UNCHANGED <<removed, releaseErr, fresh, tokenMode, tempMode>>
    /\ UNCHANGED <<initialFile, unmarshalErr, ioErr, arg, pollVars, runVars>>

\* A removal that gives up when the marker is already gone.
RemoveStaleStrict(p) ==
    /\ pc[p] = "remove"
    /\ marker' = NoMarker
    /\ removed' = [removed EXCEPT ![p] = removed[p] + 1]
    /\ IF marker.exists
       THEN NextAttempt(p)
       ELSE /\ pc' = [pc EXCEPT ![p] = "done"]
            /\ result' = [result EXCEPT ![p] = "failed to remove stale lock file"]
            /\ i' = i
    /\ UNCHANGED <<tokenFile, tempFile, data, snap, fdAt>>
    /\ UNCHANGED <<slept, releaseErr, fresh, tokenMode, tempMode>>
    /\ UNCHANGED <<initialFile, unmarshalErr, ioErr, arg, pollVars, runVars>>

\* os.Remove(lockPath) of the marker found stale, whatever marker is there
\* by now; "not exist" is tolerated. Then continue, without sleeping.
RemoveStale(p) ==
    /\ pc[p] = "remove"
    /\ marker' = NoMarker
    /\ removed' = [removed EXCEPT ![p] = removed[p] + 1]
    /\ NextAttempt(p)
    /\ UNCHANGED <<tokenFile, tempFile, data, snap, fdAt>>
    /\ UNCHANGED <<slept, releaseErr, fresh, tokenMode, tempMode>>
    /\ UNCHANGED <<initialFile, unmarshalErr, ioErr, arg, pollVars, runVars>>

\* More than 30 seconds pass since the marker's modification time: the marker
\* and every lock acquired before now are older than 30 seconds.
Elapse ==
    /\ marker.exists
    /\ ~marker.stale
    /\ marker' = [marker EXCEPT !.stale = TRUE]
    /\ fresh' = {}
    /\ UNCHANGED <<tokenFile, tempFile, pc, i, data, snap, fdAt, result>>
    /\ UNCHANGED <<slept, removed, releaseErr, tokenMode, tempMode>>
    /\ UNCHANGED <<initialFile, unmarshalErr, ioErr, arg, pollVars, runVars>>

\* A release that reports no error.
RemoveMarkerSilent(p) ==
    /\ marker' = NoMarker
    /\ releaseErr' = [releaseErr EXCEPT ![p] = "nil"]
    /\ fresh' = fresh \ {p}

\* fileLock.release: os.Remove(fl.lockPath) removes whatever marker is at the
\* path and fails when none is.
RemoveMarker(p) ==
    /\ marker' = NoMarker
    /\ releaseErr' = [releaseErr EXCEPT ![p] = IF marker.exists THEN "nil"
                                               ELSE "not exist"]
    /\ fresh' = fresh \ {p}

\* A caller of the lock alone (filelock_test.go): release on the handle
\* acquireFileLock returned, and release on the same handle once more.
ReleaseHandle(p) ==
    /\ pc[p] \in {"read", "released"}
    /\ RemoveMarker(p)
    /\ pc' = [pc EXCEPT ![p] = IF pc[p] = "read" THEN "released"
                               ELSE "released again"]
    /\ removed' = [removed EXCEPT ![p] = 0]     \* acquireFileLock is long over
    /\ UNCHANGED <<tokenFile, tempFile, i, data, snap, fdAt, result>>
    /\ UNCHANGED <<slept, tokenMode, tempMode>>
    /\ UNCHANGED <<initialFile, unmarshalErr, ioErr, arg, pollVars, runVars>>

-----------------------------------------------------------------------------
(* saveTokens, under the lock *)

\* os.ReadFile(tokenFile), json.Unmarshal, the merge and json.MarshalIndent.
ReadAndMerge(p) ==
    /\ pc[p] = "read"
    /\ snap' = [snap EXCEPT ![p] = LoadMap(tokenFile)]
    /\ data' = [data EXCEPT ![p] = Merge(LoadMap(tokenFile), Stamp(arg[p], p))]
    /\ pc' = [pc EXCEPT ![p] = "open"]
    /\ unmarshalErr' = [unmarshalErr EXCEPT ![p] = Unparsable(tokenFile)]
    /\ removed' = [removed EXCEPT ![p] = 0]     \* acquireFileLock is over
    /\ UNCHANGED <<marker, tokenFile, tempFile, i, fdAt, result>>
    /\ UNCHANGED <<slept, releaseErr, fresh, tokenMode, tempMode>>
    /\ UNCHANGED <<initialFile, ioErr, arg, pollVars, runVars>>

\* os.WriteFile, first half: OpenFile(tempFile, O_WRONLY|O_CREATE|O_TRUNC,
\* 0600). An existing temp file is truncated in place: same inode, same
\* permission bits; the 0600 is applied only to a file the call creates.
OpenTemp(p) ==
    /\ pc[p] = "open"
    /\ tempFile' = File("empty", EmptyMap)
    /\ tempMode' = IF tempFile.kind = "absent" THEN "0600" ELSE tempMode
    /\ fdAt' = [fdAt EXCEPT ![p] = "temp"]
    /\ pc' = [pc EXCEPT ![p] = "write"]
    /\ UNCHANGED <<marker, tokenFile, i, data, snap, result>>
    /\ UNCHANGED <<slept, removed, releaseErr, fresh, tokenMode>>
    /\ UNCHANGED <<initialFile, unmarshalErr, ioErr, arg, pollVars, runVars>>

\* What a write of d at offset 0 leaves in a file that held f: d over a
\* truncated file; over bytes another writer put there, d or a mix of both.
Written(f, d) ==
    IF f.kind = "empty" \/ f = Doc(d) THEN {Doc(d)}
    ELSE {Doc(d), File("torn", EmptyMap)}

\* os.WriteFile, second half: Write and Close. The bytes go to the inode the
\* handle was opened on, wherever a rename has moved it since.
WriteTemp(p) ==
    /\ pc[p] = "write"
    /\ CASE fdAt[p] = "temp" ->
              /\ tempFile' \in Written(tempFile, data[p])
              /\ UNCHANGED tokenFile
         [] fdAt[p] = "token" ->
              /\ tokenFile' \in Written(tokenFile, data[p])
              /\ UNCHANGED tempFile
         [] OTHER -> UNCHANGED <<tokenFile, tempFile>>
    /\ fdAt' = [fdAt EXCEPT ![p] = "none"]
    /\ pc' = [pc EXCEPT ![p] = "rename"]
    /\ UNCHANGED <<marker, i, data, snap, result>>
    /\ UNCHANGED <<slept, removed, releaseErr, fresh, tokenMode, tempMode>>
    /\ UNCHANGED <<initialFile, unmarshalErr, ioErr, arg, pollVars, runVars>>

\* os.Rename(tempFile, tokenFile): atomic; fails when the temp file is gone.
\* The file keeps its permission bits under its new name.
Rename(p) ==
    /\ pc[p] = "rename"
    /\ IF tempFile.kind # "absent"
       THEN /\ tokenFile' = tempFile
            /\ tokenMode' = tempMode
            /\ tempFile' = Absent
            /\ tempMode' = "none"
            /\ fdAt' = [q \in Procs |->
                          IF fdAt[q] = "temp" THEN "token"
                          ELSE IF fdAt[q] = "token" THEN "unlinked"
                          ELSE fdAt[q]]
            /\ result' = [result EXCEPT ![p] = "ok"]
            /\ pc' = [pc EXCEPT ![p] = "release"]
       ELSE /\ pc' = [pc EXCEPT ![p] = "cleanup"]
            /\ UNCHANGED <<tokenFile, tempFile, fdAt, result, tokenMode, tempMode>>
    /\ UNCHANGED <<marker, i, data, snap>>
    /\ UNCHANGED <<slept, removed, releaseErr, fresh>>
    /\ UNCHANGED <<initialFile, unmarshalErr, ioErr, arg, pollVars, runVars>>

\* A cleanup that leaves the temp file where it is.
RemoveTempSkipped(p) ==
    /\ pc[p] = "cleanup"
    /\ result' = [result EXCEPT ![p] = "rename_failed"]
    /\ pc' = [pc EXCEPT ![p] = "release"]
    /\ UNCHANGED <<marker, tokenFile, tempFile, i, data, snap, fdAt>>
    /\ UNCHANGED <<slept, removed, releaseErr, fresh, tokenMode, tempMode>>
    /\ UNCHANGED <<initialFile, unmarshalErr, ioErr, arg, pollVars, runVars>>

\* os.Remove(tempFile) after a failed rename.
RemoveTemp(p) ==
    /\ pc[p] = "cleanup"
    /\ result' = [result EXCEPT ![p] =
                    IF tempFile.kind = "absent" THEN "rename_and_remove_failed"
                    ELSE "rename_failed"]
    /\ tempFile' = Absent
    /\ tempMode' = "none"
    /\ fdAt' = [q \in Procs |-> IF fdAt[q] = "temp" THEN "unlinked" ELSE fdAt[q]]
    /\ pc' = [pc EXCEPT ![p] = "release"]
    /\ UNCHANGED <<marker, tokenFile, i, data, snap>>
    /\ UNCHANGED <<slept, removed, releaseErr, fresh, tokenMode>>
    /\ UNCHANGED <<initialFile, unmarshalErr, ioErr, arg, pollVars, runVars>>

\* A save that returns without releasing.
ReleaseSkipped(p) ==
    /\ pc[p] = "release"
    /\ pc' = [pc EXCEPT ![p] = "done"]
    /\ UNCHANGED <<marker, releaseErr, fresh>>
    /\ UNCHANGED <<tokenFile, tempFile, i, data, snap, fdAt, result>>
    /\ UNCHANGED <<slept, removed, tokenMode, tempMode>>
    /\ UNCHANGED <<initialFile, unmarshalErr, ioErr, arg, pollVars, runVars>>

\* The deferred lock.release() of saveTokens.
Release(p) ==
    /\ pc[p] = "release"
    /\ RemoveMarker(p)
    /\ pc' = [pc EXCEPT ![p] = "done"]
    /\ UNCHANGED <<tokenFile, tempFile, i, data, snap, fdAt, result>>
    /\ UNCHANGED <<slept, removed, tokenMode, tempMode>>
    /\ UNCHANGED <<initialFile, unmarshalErr, ioErr, arg, pollVars, runVars>>

-----------------------------------------------------------------------------
(* System calls of saveTokens that fail for a reason of the machine: no      *)
(* permission, a full or failing disk, a directory that went away.           *)

Failed(p, call) == ioErr' = [ioErr EXCEPT ![p] = ioErr[p] \cup {call}]

\* os.OpenFile(lockPath, ...) fails with an error that is not "exists":
\* return nil, "failed to acquire file lock".
CreateFails(p) ==
    /\ pc[p] = "create"
    /\ Failed(p, "create")
    /\ pc' = [pc EXCEPT ![p] = "done"]
    /\ result' = [result EXCEPT ![p] = "failed to acquire file lock"]
    /\ UNCHANGED <<marker, tokenFile, tempFile, i, data, snap, fdAt>>
    /\ UNCHANGED <<slept, removed, releaseErr, fresh, tokenMode, tempMode>>
    /\ UNCHANGED <<initialFile, unmarshalErr, arg, pollVars, runVars>>

\* os.Stat(lockPath) of a marker that is there fails: statErr != nil, so the
\* age test is skipped and control reaches time.Sleep(retryDelay); continue.
StatFails(p) ==
    /\ pc[p] = "stat"
    /\ marker.exists
    /\ Failed(p, "stat")
    /\ slept' = [slept EXCEPT ![p] = slept[p] + 1]
    /\ NextAttempt(p)
    /\ UNCHANGED <<marker, tokenFile, tempFile, data, snap, fdAt>>
    /\ UNCHANGED <<removed, releaseErr, fresh, tokenMode, tempMode>>
    /\ UNCHANGED <<initialFile, unmarshalErr, arg, pollVars, runVars>>

\* os.Remove(lockPath) of the stale marker fails with an error that is not
\* "not exist": return nil, "failed to remove stale lock file".
RemoveStaleFails(p) ==
    /\ pc[p] = "remove"
    /\ marker.exists
    /\ Failed(p, "remove")
    /\ removed' = [removed EXCEPT ![p] = removed[p] + 1]
    /\ pc' = [pc EXCEPT ![p] = "done"]
    /\ result' = [result EXCEPT ![p] = "failed to remove stale lock file"]
    /\ UNCHANGED <<marker, tokenFile, tempFile, i, data, snap, fdAt>>
    /\ UNCHANGED <<slept, releaseErr, fresh, tokenMode, tempMode>>
    /\ UNCHANGED <<initialFile, unmarshalErr, arg, pollVars, runVars>>

\* os.ReadFile(tokenFile) of a file that is there fails: err != nil, nothing
\* is unmarshalled and the map starts empty.
ReadFails(p) ==
    /\ pc[p] = "read"
    /\ tokenFile.kind # "absent"
    /\ Failed(p, "read")
    /\ snap' = [snap EXCEPT ![p] = EmptyMap]
    /\ data' = [data EXCEPT ![p] = Merge(EmptyMap, Stamp(arg[p], p))]
    /\ pc' = [pc EXCEPT ![p] = "open"]
    /\ removed' = [removed EXCEPT ![p] = 0]
    /\ UNCHANGED <<marker, tokenFile, tempFile, i, fdAt, result>>
    /\ UNCHANGED <<slept, releaseErr, fresh, tokenMode, tempMode>>
    /\ UNCHANGED <<initialFile, unmarshalErr, arg, pollVars, runVars>>

\* os.WriteFile(tempFile, ...) fails, in its OpenFile (the temp file is as it
\* was) or in its Write or Close (the temp file is left truncated or partly
\* written): return "failed to write temp file".
WriteFails(p) ==
    /\ pc[p] \in {"open", "write"}
    /\ Failed(p, "write")
    /\ IF pc[p] = "write" /\ fdAt[p] = "temp"
       THEN tempFile' \in {tempFile, File("torn", EmptyMap)}
       ELSE tempFile' = tempFile
    /\ fdAt' = [fdAt EXCEPT ![p] = "none"]
    /\ result' = [result EXCEPT ![p] = "failed to write temp file"]
    /\ pc' = [pc EXCEPT ![p] = "release"]
    /\ UNCHANGED <<marker, tokenFile, i, data, snap>>
    /\ UNCHANGED <<slept, removed, releaseErr, fresh, tokenMode, tempMode>>
    /\ UNCHANGED <<initialFile, unmarshalErr, arg, pollVars, runVars>>

\* os.Rename(tempFile, tokenFile) fails although the temp file is there.
RenameFails(p) ==
    /\ pc[p] = "rename"
    /\ tempFile.kind # "absent"
    /\ Failed(p, "rename")
    /\ pc' = [pc EXCEPT ![p] = "cleanup"]
    /\ UNCHANGED <<marker, tokenFile, tempFile, i, data, snap, fdAt, result>>
    /\ UNCHANGED <<slept, removed, releaseErr, fresh, tokenMode, tempMode>>
    /\ UNCHANGED <<initialFile, unmarshalErr, arg, pollVars, runVars>>

\* os.Remove(tempFile) after a failed rename fails although the temp file is
\* there: the error returned names both failures.
RemoveTempFails(p) ==
    /\ pc[p] = "cleanup"
    /\ tempFile.kind # "absent"
    /\ Failed(p, "remove temp")
    /\ result' = [result EXCEPT ![p] = "rename_and_remove_failed"]
    /\ pc' = [pc EXCEPT ![p] = "release"]
    /\ UNCHANGED <<marker, tokenFile, tempFile, i, data, snap, fdAt>>
    /\ UNCHANGED <<slept, removed, releaseErr, fresh, tokenMode, tempMode>>
    /\ UNCHANGED <<initialFile, unmarshalErr, arg, pollVars, runVars>>

\* The os.Remove(fl.lockPath) of the deferred release fails although the
\* marker is there: the error is printed and the marker stays.
ReleaseFails(p) ==
    /\ pc[p] = "release"
    /\ marker.exists
    /\ Failed(p, "release")
    /\ releaseErr' = [releaseErr EXCEPT ![p] = "remove failed"]
    /\ pc' = [pc EXCEPT ![p] = "done"]
    /\ UNCHANGED <<marker, tokenFile, tempFile, i, data, snap, fdAt, result>>
    /\ UNCHANGED <<slept, removed, fresh, tokenMode, tempMode>>
    /\ UNCHANGED <<initialFile, unmarshalErr, arg, pollVars, runVars>>

\* signal.NotifyContext cancels the context of run while a save is under way.
Interrupt ==
    /\ ctxErr = "none"
    /\ ctxErr' = "context canceled"
    /\ UNCHANGED <<interval, pollInterval, backoffMultiplier, tickerPeriod, loc,
                   attempts, callCtxDone, lastOutcome, retToken, retErr,
                   slowDownsNotified, notifiedInterval>>
    /\ UNCHANGED <<storeVars, runVars>>

-----------------------------------------------------------------------------
(* pollForTokenWithProgress.                                                 *)
(* Durations are in microseconds. The code keeps nanoseconds; every duration *)
(* it computes from a whole number of seconds is a whole number of           *)
(* microseconds, except min(I * 1.5^10, 60s) for I = 1s, which is kept       *)
(* rounded down.                                                             *)

\* The largest deviceAuth.Interval, in seconds, and the most exchange attempts
\* the model follows.
MaxIntervalSeconds == 61
MaxAttempts == 50

Second == 1000 * 1000

\* 60*time.Second, the cap of the backoff
maxPollInterval == 60 * Second

\* The default of 5 seconds when the server sent no interval
defaultInterval == 5

Intervals == -1..MaxIntervalSeconds

RECURSIVE Pow(_, _)
Pow(b, e) == IF e = 0 THEN 1 ELSE b * Pow(b, e - 1)

Min(a, b) == IF a <= b THEN a ELSE b

\* A backoff that forgets the multiplier: min(d, cap).
ScaleCappedNoGrowth(d, k, cap) == Min(d, cap)

\* min(trunc(d * 1.5^k), cap) for a duration d >= 1s, without leaving 32 bits:
\* d = a * 2^k + b gives d * 3^k / 2^k = a * 3^k + (b * 3^k) / 2^k.
ScaleCapped(d, k, cap) ==
    IF d >= cap \/ k > 10 THEN cap
    ELSE LET a == d \div Pow(2, k)
             b == d % Pow(2, k)
         IN  IF a > cap \div Pow(3, k) THEN cap
             ELSE Min(a * Pow(3, k) + (b * Pow(3, k)) \div Pow(2, k), cap)

\* The least duration d with d * 1.5^46 >= 2^63 nanoseconds.
int64OverflowAt46 == 73230469

\* Whether float64(d) * 1.5^k is beyond int64, so that the conversion to
\* time.Duration has an implementation-dependent result (for d <= 73s).
Overflows(d, k) ==
    /\ k >= 46
    /\ ScaleCapped(d, k - 46, int64OverflowAt46) = int64OverflowAt46

\* The values time.Duration(float64(pollInterval) * backoffMultiplier) can
\* take: the truncated product, or, out of int64's range, what the build's
\* conversion gives: the most negative int64 (shown as -1) or the largest.
Converted(d, k) ==
    IF Overflows(d, k) THEN {-1, maxPollInterval}
    ELSE {ScaleCapped(d, k, maxPollInterval)}

\* pollInterval = min(time.Duration(float64(pollInterval)*backoffMultiplier), 60s)
BackedOff(d, k) == {Min(c, maxPollInterval) : c \in Converted(d, k)}

\* Errors pollForTokenWithProgress returns.
NilErr == [kind |-> "nil", detail |-> "none"]
Err(kind, detail) == [kind |-> kind, detail |-> detail]

\* error codes of a non-200 response whose body parses as an ErrorResponse
ErrorCodes == {"authorization_pending", "slow_down", "expired_token",
               "access_denied", "invalid_client"}

Outcome(type, detail) == [type |-> type, detail |-> detail]
NoOutcome == Outcome("none", "none")

\* What exchangeDeviceCode can return while the context lives: a token, a
\* *oauth2.RetrieveError carrying an error code or a body that is no JSON,
\* or another error (transport, unparsable token response, failed validation).
LiveOutcomes ==
    {Outcome("token", "none")}
    \cup {Outcome("oauth_error", c) : c \in ErrorCodes}
    \cup {Outcome("retrieve_error", "body is not JSON")}
    \cup {Outcome("failure", c) :
            c \in {"request failed", "failed to parse token response",
                   "invalid token response"}}

\* With the context done, retryClient.DoWithContext fails with the context's
\* error; a call the context's end overtakes in flight may still return what
\* the server sent.
Outcomes ==
    IF ctxErr = "none" THEN LiveOutcomes
    ELSE IF callCtxDone THEN {Outcome("failure", ctxErr)}
    ELSE LiveOutcomes \cup {Outcome("failure", ctxErr)}

\* The state of the polling variables while no flow polls.
PollIdle ==
    /\ interval = 0
    /\ pollInterval = 0
    /\ backoffMultiplier = 0
    /\ tickerPeriod = 0
    /\ loc = "idle"
    /\ attempts = 0
    /\ ctxErr = "none"
    /\ callCtxDone = FALSE
    /\ lastOutcome = NoOutcome
    /\ retToken = 0
    /\ retErr = NilErr
    /\ slowDownsNotified = 0
    /\ notifiedInterval = 0

\* The call of pollForTokenWithProgress with a server-supplied interval.
PollStart ==
    /\ interval \in Intervals
    /\ pollInterval = 0
    /\ backoffMultiplier = 0
    /\ tickerPeriod = 0
    /\ loc = "start"
    /\ attempts = 0
    /\ ctxErr = "none"
    /\ callCtxDone = FALSE
    /\ lastOutcome = NoOutcome
    /\ retToken = 0
    /\ retErr = NilErr
    /\ slowDownsNotified = 0
    /\ notifiedInterval = 0

\* Lines 477-488: the default interval and time.NewTicker(pollInterval), which
\* panics on a non-positive period.
InitialPollInterval(iv) == (IF iv = 0 THEN defaultInterval ELSE iv) * Second

NewTicker ==
    /\ loc = "start"
    /\ pollInterval' = InitialPollInterval(interval)
    /\ backoffMultiplier' = 0
    /\ IF InitialPollInterval(interval) > 0
       THEN /\ tickerPeriod' = InitialPollInterval(interval)
            /\ loc' = "select"
       ELSE /\ tickerPeriod' = tickerPeriod
            /\ loc' = "panicked"
    /\ UNCHANGED <<interval, attempts, ctxErr, callCtxDone, lastOutcome, retToken,
                   retErr, slowDownsNotified, notifiedInterval>>
    /\ UNCHANGED <<storeVars, runVars>>

\* The context ends: signal.NotifyContext cancels it, or its deadline passes.
ContextDone ==
    /\ loc \in {"select", "exchange"}
    /\ ctxErr = "none"
    /\ ctxErr' \in {"context canceled", "context deadline exceeded"}
    /\ UNCHANGED <<interval, pollInterval, backoffMultiplier, tickerPeriod, loc,
                   attempts, callCtxDone, lastOutcome, retToken, retErr,
                   slowDownsNotified, notifiedInterval>>
    /\ UNCHANGED <<storeVars, runVars>>

\* select, case <-ctx.Done(): return nil, ctx.Err()
SelectDone ==
    /\ loc = "select"
    /\ ctxErr # "none"
    /\ loc' = "returned"
    /\ retErr' = Err("ctx", ctxErr)
    /\ UNCHANGED <<interval, pollInterval, backoffMultiplier, tickerPeriod, attempts,
                   ctxErr, callCtxDone, lastOutcome, retToken, slowDownsNotified,
                   notifiedInterval>>
    /\ UNCHANGED <<storeVars, runVars>>

\* select, case <-pollTicker.C: a tick is waiting (select picks any ready
\* case, so this one also when ctx.Done() is ready) and the exchange begins.
SelectTick ==
    /\ loc = "select"
    /\ attempts < MaxAttempts
    /\ loc' = "exchange"
    /\ attempts' = attempts + 1
    /\ callCtxDone' = (ctxErr # "none")
    /\ UNCHANGED <<interval, pollInterval, backoffMultiplier, tickerPeriod, ctxErr,
                   lastOutcome, retToken, retErr, slowDownsNotified,
                   notifiedInterval>>
    /\ UNCHANGED <<storeVars, runVars>>

Return(token, err) ==
    /\ loc' = "returned"
    /\ retToken' = token
    /\ retErr' = err
    /\ UNCHANGED <<pollInterval, backoffMultiplier, tickerPeriod, slowDownsNotified,
                   notifiedInterval>>

\* An engine that gives up on authorization_pending.
OnPendingGivesUp == Return(0, Err("token exchange failed", "authorization_pending"))

\* An engine that starts its backoff over on authorization_pending.
OnPendingResets ==
    /\ loc' = "select"
    /\ backoffMultiplier' = 0
    /\ UNCHANGED <<pollInterval, tickerPeriod, retToken, retErr, slowDownsNotified,
                   notifiedInterval>>

\* case "authorization_pending": continue
OnPending ==
    /\ loc' = "select"
    /\ UNCHANGED <<pollInterval, backoffMultiplier, tickerPeriod, retToken, retErr,
                   slowDownsNotified, notifiedInterval>>

\* case "slow_down": the backoff, pollTicker.Reset (which panics on a
\* non-positive period), d.PollSlowDown and continue.
OnSlowDown ==
    /\ backoffMultiplier' = backoffMultiplier + 1
    /\ pollInterval' \in BackedOff(pollInterval, backoffMultiplier + 1)
    /\ IF pollInterval' > 0
       THEN /\ tickerPeriod' = pollInterval'
            /\ slowDownsNotified' = slowDownsNotified + 1
            /\ notifiedInterval' = pollInterval'
            /\ loc' = "select"
       ELSE /\ loc' = "panicked"
            /\ UNCHANGED <<tickerPeriod, slowDownsNotified, notifiedInterval>>
    /\ UNCHANGED <<retToken, retErr>>

ExpiredErr == Err("expired", "device code expired, please restart the flow")
DeniedErr == Err("denied", "user denied authorization")

\* case "expired_token"
OnExpired == Return(0, ExpiredErr)

\* An engine that keeps polling after access_denied.
OnDeniedContinues ==
    /\ loc' = "select"
    /\ UNCHANGED <<pollInterval, backoffMultiplier, tickerPeriod, retToken, retErr,
                   slowDownsNotified, notifiedInterval>>

\* case "access_denied"
OnDenied == Return(0, DeniedErr)

\* An engine that polls again after an error code it does not know.
OnOtherCodeRetries(code) ==
    /\ loc' = "select"
    /\ UNCHANGED <<pollInterval, backoffMultiplier, tickerPeriod, retToken, retErr,
                   slowDownsNotified, notifiedInterval>>

\* default: "authorization failed: %s - %s"
OnOtherCode(code) == Return(0, Err("authorization failed", code))

\* "token exchange failed: %w"
OnUnknown(cause) == Return(0, Err("token exchange failed", cause))

\* return token, nil. The token of the n-th exchange is written n.
OnToken == Return(attempts, NilErr)

\* What the loop body does with the outcome o of exchangeDeviceCode
\* (lines 503-545).
Handle(o) ==
    CASE o.type = "token" -> OnToken
      [] o.type = "oauth_error" /\ o.detail = "authorization_pending" -> OnPending
      [] o.type = "oauth_error" /\ o.detail = "slow_down" -> OnSlowDown
      [] o.type = "oauth_error" /\ o.detail = "expired_token" -> OnExpired
      [] o.type = "oauth_error" /\ o.detail = "access_denied" -> OnDenied
      [] o.type = "oauth_error"
           /\ o.detail \notin {"authorization_pending", "slow_down",
                               "expired_token", "access_denied"} ->
            OnOtherCode(o.detail)
      [] OTHER -> OnUnknown(o.detail)

\* exchangeDeviceCode returns and the loop body runs.
Exchange ==
    /\ loc = "exchange"
    /\ \E o \in Outcomes :
          /\ lastOutcome' = o
          /\ Handle(o)
    /\ UNCHANGED <<interval, attempts, ctxErr, callCtxDone>>
    /\ UNCHANGED <<storeVars, runVars>>

\* The state of the engine in the words of the specification's state machine.
EngineState ==
    CASE loc = "panicked" -> "Panicked"
      [] loc = "returned" /\ retErr = NilErr -> "Succeeded"
      [] loc = "returned" /\ retErr.kind = "ctx" -> "Cancelled"
      [] loc = "returned" /\ retErr.kind = "expired" -> "Expired"
      [] loc = "returned" /\ retErr.kind = "denied" -> "Denied"
      [] loc = "returned" /\ retErr.kind \in {"authorization failed",
                                              "token exchange failed"} -> "Failed"
      [] OTHER -> "Polling"

-----------------------------------------------------------------------------
(* run: one invocation of the orchestrator, by one process with no other     *)
(* process on the token file. Each network call with what follows it up to   *)
(* the next network call is one action.                                      *)

\* The configured client id of the process, and time.Now() during the run
\* (expiry times are counted in seconds from it).
clientID == 1
Now == 0

NoRecord == [AccessToken |-> "nil"]

\* &TokenStorage{...} with every field.
NewStorage(accessToken, refreshToken, tokenType, expiresAt, cid) ==
    [AccessToken |-> accessToken, RefreshToken |-> refreshToken,
     TokenType |-> tokenType, ExpiresAt |-> expiresAt, ClientID |-> cid]

\* A validation that tests the token type before everything else.
validateTypeFirst(accessToken, tokenType, expiresIn) ==
    IF tokenType # "" /\ tokenType # "Bearer" THEN "unexpected token_type"
    ELSE IF accessToken = "" THEN "access_token is empty"
    ELSE IF Len(accessToken) < 10 THEN "access_token is too short"
    ELSE IF expiresIn <= 0 THEN "expires_in must be positive"
    ELSE "nil"

\* validateTokenResponse: the first failing test, or "nil".
validateNothing(accessToken, tokenType, expiresIn) == "nil"

validateTokenResponse(accessToken, tokenType, expiresIn) ==
    IF accessToken = "" THEN "access_token is empty"
    ELSE IF Len(accessToken) < 10 THEN "access_token is too short"
    ELSE IF expiresIn <= 0 THEN "expires_in must be positive"
    ELSE IF tokenType # "" /\ tokenType # "Bearer" THEN "unexpected token_type"
    ELSE "nil"

\* The body of a 200 reply of the token endpoint.
TokenResponses ==
    [AccessToken : {"", "short", "nine-char", "ten-chars!", "access-token-2"},
     RefreshToken : {"", "refresh-token-2"},
     TokenType : {"", "Bearer", "MAC"},
     ExpiresIn : {-1, 0, 3600}]

NoBody == [AccessToken |-> "", RefreshToken |-> "", TokenType |-> "", ExpiresIn |-> 0]

Reply(kind, code, body) == [kind |-> kind, code |-> code, body |-> body]
NoReply == Reply("none", "none", NoBody)

\* What the token endpoint can answer to a refresh: no answer (transport
\* error or timeout), a non-200 status with an error code or with a body that
\* is no JSON, a 200 whose body is no JSON, a 200 with a token response.
RefreshReplies ==
    {Reply("transport", "none", NoBody), Reply("bad status body", "none", NoBody),
     Reply("bad body", "none", NoBody)}
    \cup {Reply("status", c, NoBody) : c \in {"invalid_grant", "invalid_token",
                                              "server_error"}}
    \cup {Reply("ok", "none", b) : b \in TokenResponses}

\* What a device flow can meet: the device code request fails, the polling
\* engine ends with one of its errors, or an exchange gets a 200 whose body
\* is a token response (which exchangeDeviceCode validates).
FlowReplies ==
    {Reply("device code request failed", "none", NoBody)}
    \cup {Reply("poll", c, NoBody) : c \in {"access_denied", "expired_token",
                                            "context canceled"}}
    \cup {Reply("ok", "none", b) : b \in TokenResponses}

Result(st, err) == [storage |-> st, err |-> err]

\* A loader that reports a file it cannot parse as holding no tokens.
loadTokensLenient(f, cid) ==
    IF f.kind = "absent" THEN Result(NoRecord, "not exist")
    ELSE IF Unparsable(f) \/ f.kind = "nokey"
         THEN Result(NoRecord, "no tokens found in token file")
    ELSE IF cid \in DOMAIN f.tokens THEN Result(f.tokens[cid], "nil")
    ELSE Result(NoRecord, "no tokens found for client_id")

\* loadTokens
loadTokens(f, cid) ==
    IF f.kind = "absent" THEN Result(NoRecord, "not exist")
    ELSE IF Unparsable(f) THEN Result(NoRecord, "failed to parse token file")
    ELSE IF f.kind = "nokey" THEN Result(NoRecord, "no tokens found in token file")
    ELSE IF cid \in DOMAIN f.tokens THEN Result(f.tokens[cid], "nil")
    ELSE Result(NoRecord, "no tokens found for client_id")

\* time.Now().Before(t), and a test that also accepts t = now
BeforeOrAt(now, t) == now <= t

Before(now, t) == now < t

\* A refresh that takes the refresh token of the response as it is.
refreshAccessTokenNoFallback(refreshToken, reply) ==
    IF reply.kind # "ok"
    THEN Result(NoRecord, IF reply.kind = "status" /\ reply.code \in {"invalid_grant",
                                                                       "invalid_token"}
                          THEN "ErrRefreshTokenExpired" ELSE "refresh failed")
    ELSE IF validateTokenResponse(reply.body.AccessToken, reply.body.TokenType,
                                  reply.body.ExpiresIn) # "nil"
         THEN Result(NoRecord, "invalid token response")
    ELSE Result(NewStorage(reply.body.AccessToken, reply.body.RefreshToken,
                           reply.body.TokenType, Now + reply.body.ExpiresIn, clientID),
                "nil")

\* refreshAccessToken up to the save: the record it builds, or its error.
refreshAccessToken(refreshToken, reply) ==
    CASE reply.kind = "transport" -> Result(NoRecord, "refresh request failed")
      [] reply.kind = "bad status body" -> Result(NoRecord, "refresh failed with status")
      [] reply.kind = "status" ->
            IF reply.code \in {"invalid_grant", "invalid_token"}
            THEN Result(NoRecord, "ErrRefreshTokenExpired")
            ELSE Result(NoRecord, reply.code)
      [] reply.kind = "bad body" -> Result(NoRecord, "failed to parse token response")
      [] OTHER ->
            LET b == reply.body
                v == validateTokenResponse(b.AccessToken, b.TokenType, b.ExpiresIn)
            IN  IF v # "nil" THEN Result(NoRecord, "invalid token response")
                ELSE Result(NewStorage(b.AccessToken,
                                       IF b.RefreshToken = "" THEN refreshToken
                                       ELSE b.RefreshToken,
                                       b.TokenType, Now + b.ExpiresIn, clientID),
                            "nil")

\* performDeviceFlow up to the save: the record it builds, or its error.
performDeviceFlow(reply) ==
    CASE reply.kind = "device code request failed" ->
            Result(NoRecord, "device code request failed")
      [] reply.kind = "poll" -> Result(NoRecord, "token poll failed")
      [] OTHER ->
            LET b == reply.body
                v == validateTokenResponse(b.AccessToken, b.TokenType, b.ExpiresIn)
            IN  IF v # "nil" THEN Result(NoRecord, "token poll failed")
                ELSE Result(NewStorage(b.AccessToken, b.RefreshToken, b.TokenType,
                                       Now + b.ExpiresIn, clientID),
                            "nil")

\* The counts of a makeAPICallWithAutoRefresh at its call.
NoCall == [requests |-> 0, refreshes |-> 0]

\* The run variables while no run is under way, and at the call of run.
RunIdle ==
    /\ rloc = "idle"
    /\ cached = NoRecord
    /\ loadErr = "none"
    /\ runStorage = NoRecord
    /\ refreshes = 0
    /\ flows = 0
    /\ saveCalls = 0
    /\ lastArg = ""
    /\ lastReply = NoReply
    /\ lastErr = "none"
    /\ lastSave = "none"
    /\ runErr = "none"
    /\ lastValidation = "none"
    /\ fatals = 0
    /\ lastNote = "none"
    /\ apiCall = NoCall
    /\ state = "stateInit"
    /\ leftFinal = FALSE

RunStart ==
    /\ rloc = "load"
    /\ cached = NoRecord
    /\ loadErr = "none"
    /\ runStorage = NoRecord
    /\ refreshes = 0
    /\ flows = 0
    /\ saveCalls = 0
    /\ lastArg = ""
    /\ lastReply = NoReply
    /\ lastErr = "none"
    /\ lastSave = "none"
    /\ runErr = "none"
    /\ lastValidation = "none"
    /\ fatals = 0
    /\ lastNote = "none"
    /\ apiCall = NoCall
    /\ state = "stateInit"
    /\ leftFinal = FALSE

\* The token file a run finds: none, one that does not parse, one without
\* tokens, one with another client's record only, or one that also holds a
\* record of this client, saved by an earlier run, expired or not.
OtherRecord == NewStorage("access-token-0", "refresh-token-0", "Bearer", 3600, OtherClient)

CachedRecords ==
    {NewStorage("access-token-1", "refresh-token-1", "Bearer", e, clientID) :
        e \in {-1, 0, 3600}}

RunFiles ==
    {Absent, File("corrupt", EmptyMap), File("nokey", EmptyMap),
     Doc(Merge(EmptyMap, OtherRecord))}
    \cup {Doc(Merge(Merge(EmptyMap, OtherRecord), c)) : c \in CachedRecords}

storeRest == <<marker, tempFile, pc, i, data, snap, fdAt, result, initialFile, slept,
               removed, releaseErr, fresh, tempMode, unmarshalErr, ioErr, arg>>

\* saveTokens as a whole, for a process that is alone on the files: it
\* publishes the merge of what it reads and its record, or fails (the lock
\* times out against a marker it cannot reclaim, or a write fails) and leaves
\* the token file as it was.
SaveOutcomes == {"ok", "failed"}

SaveTokens(st, outcome) ==
    /\ saveCalls' = saveCalls + 1
    /\ lastSave' = outcome
    /\ IF outcome = "ok"
       THEN /\ tokenFile' = Doc(Merge(LoadMap(tokenFile), st))
            /\ tokenMode' = IF tempFile.kind = "absent" THEN "0600" ELSE tempMode
       ELSE UNCHANGED <<tokenFile, tokenMode>>

NoSave == UNCHANGED <<tokenFile, tokenMode, saveCalls, lastSave>>

\* Model.Update for the messages of the OAuth flow: the state after msg.
Update(st, msg) ==
    CASE msg \in {"TokenExpired", "Refreshing"} -> "stateRefreshing"
      [] msg = "DeviceCodeReady" -> "stateDeviceFlow"
      [] msg = "WaitingForAuth" -> "statePolling"
      [] msg = "Verifying" -> "stateVerifying"
      [] msg = "Done" -> "stateSuccess"
      [] msg = "Fatal" -> "stateError"
      [] OTHER -> st

\* The TUI after the messages msgs, sent in this order by the ProgramDisplayer.
RECURSIVE Show(_, _)
Show(m, msgs) ==
    IF msgs = <<>> THEN m
    ELSE Show([state |-> Update(m.state, Head(msgs)),
               leftFinal |-> \/ m.leftFinal
                             \/ /\ m.state \in {"stateSuccess", "stateError"}
                                /\ Update(m.state, Head(msgs)) # m.state],
              Tail(msgs))

Shown(msgs) ==
    /\ state' = Show([state |-> state, leftFinal |-> leftFinal], msgs).state
    /\ leftFinal' = Show([state |-> state, leftFinal |-> leftFinal], msgs).leftFinal

\* The messages of run, lines 280-303, up to the refresh.
LoadMsgs(r) ==
    IF r.err # "nil" THEN <<"TokensNotFound">>
    ELSE IF Before(Now, r.storage.ExpiresAt) THEN <<"TokensFound", "TokenValid">>
    ELSE <<"TokensFound", "TokenExpired", "Refreshing">>

\* The message of refreshAccessToken: only that of a failed save.
RefreshMsgs(r, outcome) ==
    IF r.err = "nil" /\ outcome = "failed" THEN <<"TokenSaveFailed">> ELSE <<>>

\* The messages of performDeviceFlow (those of slow_down responses, which
\* leave Model.state alone, are left out).
FlowMsgs(r, reply, outcome) ==
    IF reply.kind = "device code request failed" THEN <<>>
    ELSE <<"DeviceCodeReady", "WaitingForAuth">>
         \o (IF r.err # "nil" THEN <<>>
             ELSE <<"AuthSuccess",
                    IF outcome = "ok" THEN "TokenSaved" ELSE "TokenSaveFailed">>)

\* A call of a method of the Displayer other than Fatal.
Note(n) ==
    /\ lastNote' = n
    /\ fatals' = fatals

\* A run that returns its error without telling the observer.
FinishQuietly(err, note) ==
    /\ rloc' = "returned"
    /\ runErr' = err
    /\ Note(note)

\* return nil of run after the notification note, or d.Fatal(err); return err
Finish(err, note) ==
    /\ rloc' = "returned"
    /\ runErr' = err
    /\ IF err = "nil"
       THEN Note(note)
       ELSE /\ lastNote' = "Fatal"
            /\ fatals' = fatals + 1

\* What validateTokenResponse says of the body of a 200 reply.
Validation(reply) ==
    IF reply.kind = "ok"
    THEN validateTokenResponse(reply.body.AccessToken, reply.body.TokenType,
                               reply.body.ExpiresIn)
    ELSE "none"

\* A call of refreshAccessToken(ctx, refreshToken, d) answered by reply: the
\* save follows a record that passed validation, and its error is only shown.
CallRefresh(refreshToken, reply, outcome) ==
    /\ refreshes' = refreshes + 1
    /\ lastArg' = refreshToken
    /\ lastReply' = reply
    /\ lastErr' = refreshAccessToken(refreshToken, reply).err
    /\ lastValidation' = Validation(reply)
    /\ IF refreshAccessToken(refreshToken, reply).err = "nil"
       THEN SaveTokens(refreshAccessToken(refreshToken, reply).storage, outcome)
       ELSE NoSave
    /\ UNCHANGED flows

\* A device flow that returns the error of its save.
CallFlowPropagates(reply, outcome) ==
    /\ flows' = flows + 1
    /\ lastReply' = reply
    /\ lastErr' = IF performDeviceFlow(reply).err = "nil" /\ outcome = "failed"
                  THEN "failed to save tokens"
                  ELSE performDeviceFlow(reply).err
    /\ lastValidation' = Validation(reply)
    /\ IF performDeviceFlow(reply).err = "nil"
       THEN SaveTokens(performDeviceFlow(reply).storage, outcome)
       ELSE NoSave
    /\ UNCHANGED <<refreshes, lastArg>>

\* A call of performDeviceFlow(ctx, d) that meets reply.
CallFlow(reply, outcome) ==
    /\ flows' = flows + 1
    /\ lastReply' = reply
    /\ lastErr' = performDeviceFlow(reply).err
    /\ lastValidation' = Validation(reply)
    /\ IF performDeviceFlow(reply).err = "nil"
       THEN SaveTokens(performDeviceFlow(reply).storage, outcome)
       ELSE NoSave
    /\ UNCHANGED <<refreshes, lastArg>>

\* run, lines 280-304: loadTokens and the expiry test.
LoadTokens ==
    /\ rloc = "load"
    /\ cached' = loadTokens(tokenFile, clientID).storage
    /\ loadErr' = loadTokens(tokenFile, clientID).err
    /\ runStorage' = loadTokens(tokenFile, clientID).storage
    /\ rloc' = IF loadTokens(tokenFile, clientID).err # "nil" THEN "flow"
               ELSE IF Before(Now, loadTokens(tokenFile, clientID).storage.ExpiresAt)
                    THEN "verify"
               ELSE "refresh"
    /\ Shown(LoadMsgs(loadTokens(tokenFile, clientID)))
    /\ UNCHANGED apiCall
    /\ Note(IF loadTokens(tokenFile, clientID).err # "nil" THEN "TokensNotFound"
            ELSE IF Before(Now, loadTokens(tokenFile, clientID).storage.ExpiresAt)
                 THEN "TokenValid"
            ELSE "Refreshing")
    /\ NoSave
    /\ UNCHANGED <<refreshes, flows, lastArg, lastReply, lastErr, runErr, lastValidation>>
    /\ UNCHANGED <<storeRest, pollVars>>

\* run, lines 292-299: the refresh of an expired cached record.
StartupRefresh ==
    /\ rloc = "refresh"
    /\ \E reply \in RefreshReplies, outcome \in SaveOutcomes :
          /\ CallRefresh(runStorage.RefreshToken, reply, outcome)
          /\ Shown(RefreshMsgs(refreshAccessToken(runStorage.RefreshToken, reply), outcome)
                   \o <<IF refreshAccessToken(runStorage.RefreshToken, reply).err # "nil"
                        THEN "RefreshFailed" ELSE "RefreshOK">>)
          /\ IF refreshAccessToken(runStorage.RefreshToken, reply).err # "nil"
             THEN /\ runStorage' = NoRecord
                  /\ rloc' = "flow"
                  /\ Note("RefreshFailed")
             ELSE /\ runStorage' = refreshAccessToken(runStorage.RefreshToken, reply).storage
                  /\ rloc' = "verify"
                  /\ Note("RefreshOK")
    /\ UNCHANGED <<cached, loadErr, runErr, apiCall>>
    /\ UNCHANGED <<storeRest, pollVars>>

\* run, lines 306-312: the device flow when there is no usable record.
StartupFlow ==
    /\ rloc = "flow"
    /\ \E reply \in FlowReplies, outcome \in SaveOutcomes :
          /\ CallFlow(reply, outcome)
          /\ runStorage' = performDeviceFlow(reply).storage
          /\ Shown(FlowMsgs(performDeviceFlow(reply), reply, outcome)
                   \o (IF performDeviceFlow(reply).err # "nil" THEN <<"Fatal">>
                       ELSE <<>>))
          /\ IF performDeviceFlow(reply).err # "nil"
             THEN Finish(performDeviceFlow(reply).err, "Fatal")
             ELSE /\ rloc' = "verify"
                  /\ runErr' = runErr
                  /\ Note(IF outcome = "ok" THEN "TokenSaved" ELSE "TokenSaveFailed")
    /\ UNCHANGED <<cached, loadErr, apiCall>>
    /\ UNCHANGED <<storeRest, pollVars>>

\* run, lines 314-325: d.Done and verifyToken, whose error is only shown.
VerifyToken ==
    /\ rloc = "verify"
    /\ rloc' = "api"
    /\ apiCall' = NoCall
    /\ \E note \in {"VerifyOK", "VerifyFailed"} :
          /\ Note(note)
          /\ Shown(<<"Done", "Verifying", note>>)
    /\ NoSave
    /\ UNCHANGED <<cached, loadErr, runStorage, refreshes, flows, lastArg, lastReply,
                   lastErr, runErr, lastValidation>>
    /\ UNCHANGED <<storeRest, pollVars>>

\* A run that treats its second API call like its first.
RetryingNever(l) == FALSE

Retrying(l) == l \in {"api2", "api2 refresh", "api2 retry"}

\* The messages at the end of a makeAPICallWithAutoRefresh: of a failure, and
\* of a success (which the second call reports once more, line 344).
ApiFailedMsgs(l) == IF Retrying(l) THEN <<"Fatal">> ELSE <<"APICallFailed">>
ApiOKMsgs(l) == IF Retrying(l) THEN <<"APICallOK", "APICallOK">> ELSE <<"APICallOK">>

\* What run does with an error of makeAPICallWithAutoRefresh other than
\* ErrRefreshTokenExpired: the first call's is shown, the second's is fatal.
ApiFailed(err) ==
    IF Retrying(rloc) THEN Finish(err, "Fatal") ELSE Finish("nil", "APICallFailed")

ApiStatuses == {"transport", "200", "401", "500"}

\* makeAPICallWithAutoRefresh: the request with the current access token.
ApiRequest ==
    /\ rloc \in {"api", "api2"}
    /\ apiCall' = [apiCall EXCEPT !.requests = apiCall.requests + 1]
    /\ \E status \in ApiStatuses :
          CASE status = "200" -> Finish("nil", "APICallOK") /\ Shown(ApiOKMsgs(rloc))
            [] status = "401" ->
                  /\ rloc' = IF rloc = "api" THEN "api refresh" ELSE "api2 refresh"
                  /\ runErr' = runErr
                  /\ Note("AccessTokenRejected")
                  /\ Shown(<<"AccessTokenRejected">>)
            [] status = "transport" ->
                  ApiFailed("API request failed") /\ Shown(ApiFailedMsgs(rloc))
            [] OTHER ->
                  ApiFailed("API call failed with status") /\ Shown(ApiFailedMsgs(rloc))
    /\ NoSave
    /\ UNCHANGED <<cached, loadErr, runStorage, refreshes, flows, lastArg, lastReply,
                   lastErr, lastValidation>>
    /\ UNCHANGED <<storeRest, pollVars>>

\* makeAPICallWithAutoRefresh after a 401: refreshAccessToken; the sentinel
\* makes run start a device flow (first call) or fail (second call).
ApiRefresh ==
    /\ rloc \in {"api refresh", "api2 refresh"}
    /\ apiCall' = [apiCall EXCEPT !.refreshes = apiCall.refreshes + 1]
    /\ \E reply \in RefreshReplies, outcome \in SaveOutcomes :
          /\ CallRefresh(runStorage.RefreshToken, reply, outcome)
          /\ LET r == refreshAccessToken(runStorage.RefreshToken, reply)
             IN  Shown(RefreshMsgs(r, outcome)
                       \o (IF r.err = "nil" THEN <<"TokenRefreshedRetrying">>
                           ELSE IF r.err = "ErrRefreshTokenExpired" /\ rloc = "api refresh"
                                THEN <<"ReAuthRequired">>
                           ELSE ApiFailedMsgs(rloc)))
          /\ LET r == refreshAccessToken(runStorage.RefreshToken, reply)
             IN  CASE r.err = "nil" ->
                        /\ runStorage' = [runStorage EXCEPT
                                            !.AccessToken = r.storage.AccessToken,
                                            !.RefreshToken = r.storage.RefreshToken,
                                            !.ExpiresAt = r.storage.ExpiresAt]
                        /\ rloc' = IF rloc = "api refresh" THEN "api retry"
                                   ELSE "api2 retry"
                        /\ runErr' = runErr
                        /\ Note("TokenRefreshedRetrying")
                   [] r.err = "ErrRefreshTokenExpired" /\ rloc = "api refresh" ->
                        /\ rloc' = "reauth"
                        /\ Note("ReAuthRequired")
                        /\ UNCHANGED <<runStorage, runErr>>
                   [] r.err = "ErrRefreshTokenExpired" /\ rloc = "api2 refresh" ->
                        /\ Finish("ErrRefreshTokenExpired", "Fatal")
                        /\ UNCHANGED runStorage
                   [] OTHER ->
                        /\ ApiFailed("refresh failed")
                        /\ UNCHANGED runStorage
    /\ UNCHANGED <<cached, loadErr>>
    /\ UNCHANGED <<storeRest, pollVars>>

\* An API call that refreshes again when its retry is refused too.
ApiRetryRefreshesAgain ==
    /\ rloc \in {"api retry", "api2 retry"}
    /\ apiCall' = [apiCall EXCEPT !.requests = apiCall.requests + 1]
    /\ \E status \in ApiStatuses :
          CASE status = "200" -> Finish("nil", "APICallOK") /\ Shown(ApiOKMsgs(rloc))
            [] status = "401" /\ apiCall.refreshes < 2 ->
                  /\ rloc' = IF rloc = "api retry" THEN "api refresh" ELSE "api2 refresh"
                  /\ runErr' = runErr
                  /\ Note("AccessTokenRejected")
                  /\ Shown(<<"AccessTokenRejected">>)
            [] status = "transport" ->
                  ApiFailed("retry failed") /\ Shown(ApiFailedMsgs(rloc))
            [] OTHER ->
                  ApiFailed("API call failed with status") /\ Shown(ApiFailedMsgs(rloc))
    /\ NoSave
    /\ UNCHANGED <<cached, loadErr, runStorage, refreshes, flows, lastArg, lastReply,
                   lastErr, lastValidation>>
    /\ UNCHANGED <<storeRest, pollVars>>

\* makeAPICallWithAutoRefresh: the retry with the refreshed access token.
ApiRetry ==
    /\ rloc \in {"api retry", "api2 retry"}
    /\ apiCall' = [apiCall EXCEPT !.requests = apiCall.requests + 1]
    /\ \E status \in ApiStatuses :
          CASE status = "200" -> Finish("nil", "APICallOK") /\ Shown(ApiOKMsgs(rloc))
            [] status = "transport" ->
                  ApiFailed("retry failed") /\ Shown(ApiFailedMsgs(rloc))
            [] OTHER ->
                  ApiFailed("API call failed with status") /\ Shown(ApiFailedMsgs(rloc))
    /\ NoSave
    /\ UNCHANGED <<cached, loadErr, runStorage, refreshes, flows, lastArg, lastReply,
                   lastErr, lastValidation>>
    /\ UNCHANGED <<storeRest, pollVars>>

\* run, lines 330-337: the device flow after ErrRefreshTokenExpired.
Reauthorize ==
    /\ rloc = "reauth"
    /\ \E reply \in FlowReplies, outcome \in SaveOutcomes :
          /\ CallFlow(reply, outcome)
          /\ runStorage' = performDeviceFlow(reply).storage
          /\ Shown(FlowMsgs(performDeviceFlow(reply), reply, outcome)
                   \o (IF performDeviceFlow(reply).err # "nil" THEN <<"Fatal">>
                       ELSE <<"TokenRefreshedRetrying">>))
          /\ IF performDeviceFlow(reply).err # "nil"
             THEN Finish(performDeviceFlow(reply).err, "Fatal")
             ELSE /\ rloc' = "api2"
                  /\ runErr' = runErr
                  /\ Note("TokenRefreshedRetrying")
    /\ apiCall' = NoCall
    /\ UNCHANGED <<cached, loadErr>>
    /\ UNCHANGED <<storeRest, pollVars>>

-----------------------------------------------------------------------------

NextStore ==
    \/ \E p \in Procs : TryCreate(p)
    \/ \E p \in Procs : StatMarker(p)
    \/ \E p \in Procs : RemoveStale(p)
    \/ Elapse
    \/ \E p \in Procs : ReadAndMerge(p)
    \/ \E p \in Procs : OpenTemp(p)
    \/ \E p \in Procs : WriteTemp(p)
    \/ \E p \in Procs : Rename(p)
    \/ \E p \in Procs : RemoveTemp(p)
    \/ \E p \in Procs : Release(p)

InitStore ==
    /\ StoreStart
    /\ PollIdle
    /\ RunIdle

SpecStore == InitStore /\ [][NextStore]_vars

\* Callers of the lock alone, as in filelock_test.go: each acquires, releases
\* and releases once more, on a path where an earlier process may have left a
\* stale marker.
NextLock ==
    \/ \E p \in Procs : TryCreate(p)
    \/ \E p \in Procs : StatMarker(p)
    \/ \E p \in Procs : RemoveStale(p)
    \/ Elapse
    \/ \E p \in Procs : ReleaseHandle(p)

LockStart ==
    /\ OwnRecords
    /\ marker \in {NoMarker, Marker(0, TRUE)}
    /\ tokenFile = Doc(Merge(EmptyMap, TokenStorage(OldToken, OtherClient)))
    /\ tokenMode = "0600"
    /\ initialFile = tokenFile
    /\ tempFile = Absent
    /\ tempMode = "none"
    /\ ProcsStart

InitLock ==
    /\ LockStart
    /\ PollIdle
    /\ RunIdle

SpecLock == InitLock /\ [][NextLock]_vars

\* One process saving on a machine whose system calls can fail, next to a
\* marker that a dead process left or that a live process keeps, while the
\* user may interrupt the program.
Savers == {1}

NextSave ==
    \/ \E p \in Savers : TryCreate(p)
    \/ \E p \in Savers : StatMarker(p)
    \/ \E p \in Savers : RemoveStale(p)
    \/ Elapse
    \/ \E p \in Savers : ReadAndMerge(p)
    \/ \E p \in Savers : OpenTemp(p)
    \/ \E p \in Savers : WriteTemp(p)
    \/ \E p \in Savers : Rename(p)
    \/ \E p \in Savers : RemoveTemp(p)
    \/ \E p \in Savers : Release(p)
    \/ \E p \in Savers : CreateFails(p)
    \/ \E p \in Savers : StatFails(p)
    \/ \E p \in Savers : RemoveStaleFails(p)
    \/ \E p \in Savers : ReadFails(p)
    \/ \E p \in Savers : WriteFails(p)
    \/ \E p \in Savers : RenameFails(p)
    \/ \E p \in Savers : RemoveTempFails(p)
    \/ \E p \in Savers : ReleaseFails(p)
    \/ Interrupt

SaveStart ==
    /\ \E cid \in {NoClientID, OtherClient} \cup Savers :
          arg = [p \in Procs |-> IF p \in Savers THEN TokenStorage(p, cid)
                                 ELSE StorageOf(p)]
    /\ marker \in {NoMarker, Marker(0, TRUE), Marker(0, FALSE)}
    /\ \E d \in InitialDisks :
          /\ tokenFile = d.file
          /\ tokenMode = d.mode
          /\ tempFile = d.temp
          /\ tempMode = d.tmode
    /\ initialFile = tokenFile
    /\ ProcsStart

InitSave ==
    /\ SaveStart
    /\ PollIdle
    /\ RunIdle

SpecSave == InitSave /\ [][NextSave]_vars

\* A process outside the model creates the marker (its own acquireFileLock
\* succeeds), and later removes it (its release) unless it dies first.
ForeignCreate ==
    /\ ~marker.exists
    /\ marker' = Marker(0, FALSE)
    /\ UNCHANGED <<tokenFile, tempFile, pc, i, data, snap, fdAt, result>>
    /\ UNCHANGED <<slept, removed, releaseErr, fresh, tokenMode, tempMode>>
    /\ UNCHANGED <<initialFile, unmarshalErr, ioErr, arg, pollVars, runVars>>

ForeignRelease ==
    /\ marker.exists
    /\ marker.owner = 0
    /\ marker' = NoMarker
    /\ UNCHANGED <<tokenFile, tempFile, pc, i, data, snap, fdAt, result>>
    /\ UNCHANGED <<slept, removed, releaseErr, fresh, tokenMode, tempMode>>
    /\ UNCHANGED <<initialFile, unmarshalErr, ioErr, arg, pollVars, runVars>>

\* One step of the acquireFileLock of process p.
Acquiring(p) ==
    \/ TryCreate(p)
    \/ StatMarker(p)
    \/ RemoveStale(p)
    \/ CreateFails(p)
    \/ StatFails(p)
    \/ RemoveStaleFails(p)

\* One call of acquireFileLock on a path where processes outside the model
\* keep creating markers, releasing them or leaving them to grow stale, on a
\* machine whose system calls can fail. The calling process keeps running:
\* every system call and every time.Sleep of its loop returns.
NextAcquire ==
    \/ \E p \in Savers : Acquiring(p)
    \/ Elapse
    \/ ForeignCreate
    \/ ForeignRelease

AcquireStart ==
    /\ OwnRecords
    /\ marker \in {NoMarker, Marker(0, TRUE), Marker(0, FALSE)}
    /\ tokenFile = Doc(Merge(EmptyMap, TokenStorage(OldToken, OtherClient)))
    /\ tokenMode = "0600"
    /\ initialFile = tokenFile
    /\ tempFile = Absent
    /\ tempMode = "none"
    /\ ProcsStart

InitAcquire ==
    /\ AcquireStart
    /\ PollIdle
    /\ RunIdle

SpecAcquire ==
    /\ InitAcquire
    /\ [][NextAcquire]_vars
    /\ \A p \in Savers : WF_vars(Acquiring(p))

\* The state of the store while no process saves.
StoreIdle ==
    /\ OwnRecords
    /\ marker = NoMarker
    /\ tokenFile = Absent
    /\ initialFile = Absent
    /\ tempFile = Absent
    /\ pc = [p \in Procs |-> "done"]
    /\ i = [p \in Procs |-> 0]
    /\ data = [p \in Procs |-> EmptyMap]
    /\ snap = [p \in Procs |-> EmptyMap]
    /\ fdAt = [p \in Procs |-> "none"]
    /\ result = [p \in Procs |-> "running"]
    /\ slept = [p \in Procs |-> 0]
    /\ removed = [p \in Procs |-> 0]
    /\ releaseErr = [p \in Procs |-> "none"]
    /\ fresh = {}
    /\ unmarshalErr = [p \in Procs |-> FALSE]
    /\ ioErr = [p \in Procs |-> {}]
    /\ tokenMode = "none"
    /\ tempMode = "none"

NextPoll ==
    \/ NewTicker
    \/ ContextDone
    \/ SelectDone
    \/ SelectTick
    \/ Exchange

InitPoll ==
    /\ PollStart
    /\ StoreIdle
    /\ RunIdle

SpecPoll == InitPoll /\ [][NextPoll]_vars

\* One run of the orchestrator.
NextRun ==
    \/ LoadTokens
    \/ StartupRefresh
    \/ StartupFlow
    \/ VerifyToken
    \/ ApiRequest
    \/ ApiRefresh
    \/ ApiRetry
    \/ Reauthorize

\* The files a run starts from: no marker, no temp file, no other process.
RunStore ==
    /\ OwnRecords
    /\ marker = NoMarker
    /\ tokenFile \in RunFiles
    /\ tokenMode = IF tokenFile = Absent THEN "none" ELSE "0600"
    /\ initialFile = tokenFile
    /\ tempFile = Absent
    /\ tempMode = "none"
    /\ pc = [p \in Procs |-> "done"]
    /\ i = [p \in Procs |-> 0]
    /\ data = [p \in Procs |-> EmptyMap]
    /\ snap = [p \in Procs |-> EmptyMap]
    /\ fdAt = [p \in Procs |-> "none"]
    /\ result = [p \in Procs |-> "running"]
    /\ slept = [p \in Procs |-> 0]
    /\ removed = [p \in Procs |-> 0]
    /\ releaseErr = [p \in Procs |-> "none"]
    /\ fresh = {}
    /\ unmarshalErr = [p \in Procs |-> FALSE]
    /\ ioErr = [p \in Procs |-> {}]

InitRun ==
    /\ RunStore
    /\ PollIdle
    /\ RunStart

SpecRun == InitRun /\ [][NextRun]_vars

-----------------------------------------------------------------------------
(* Claims about the token store, checked under SpecStore *)

\* A process is in its critical section from the successful create of the
\* marker until its release has removed the marker.
InCriticalSection(p) ==
    pc[p] \in {"read", "open", "write", "rename", "cleanup", "release"}

\* C1: at most one process at a time is between a successful acquireFileLock
\* and the matching release, also when markers grow stale and are reclaimed.
C1_MutualExclusion ==
    \A p, q \in Procs : (p # q) => ~(InCriticalSection(p) /\ InCriticalSection(q))

\* C2: when the token file was absent at first and every process has saved
\* the record of its own client id, every save returned success and the file
\* is the document with exactly one entry per process, each as saved.
C2_AllSavesKept ==
    (initialFile = Absent /\ \A p \in Procs : pc[p] = "done")
        => /\ \A p \in Procs : result[p] = "ok"
           /\ tokenFile = Doc([p \in Procs |-> StorageOf(p)])

\* C3: the rename of a save that succeeds publishes the document the save
\* read under the lock with only the key of its own client set: every other
\* entry is there and unchanged.
C3_PublishesMergeOfSnapshot ==
    [][\A p \in Procs :
          (pc[p] = "rename" /\ pc'[p] = "release" /\ result'[p] = "ok")
              => tokenFile' = Doc(Merge(snap[p], StorageOf(p)))]_vars

\* C4: the canonical path never holds a partially written file: no truncated
\* file and no mix of two writers' bytes.
C4_NeverPartial == tokenFile.kind \notin {"empty", "torn"}

\* C18: a save whose read under the lock meets a file that does not parse
\* goes on with an empty map and its own record, does not fail, and its rename
\* publishes the document holding exactly that record.
C18_RecoversFromParseFailure ==
    /\ [][\A p \in Procs :
            (pc[p] = "read" /\ pc'[p] # "read" /\ Unparsable(tokenFile))
                => /\ pc'[p] = "open"
                   /\ result'[p] = "running"
                   /\ data'[p] = Merge(EmptyMap, StorageOf(p))]_vars
    /\ [][\A p \in Procs :
            (pc[p] = "rename" /\ pc'[p] # "rename" /\ unmarshalErr[p])
                => /\ result'[p] = "ok"
                   /\ tokenFile' = Doc(Merge(EmptyMap, StorageOf(p)))]_vars

\* C19: the rename of a successful save leaves the canonical file with
\* permission bits 0600.
C19_OwnerOnlyAfterSave ==
    [][\A p \in Procs :
          (pc[p] = "rename" /\ pc'[p] = "release" /\ result'[p] = "ok")
              => tokenMode' = "0600"]_vars

\* C37: a save that returned an error has left the document at the canonical
\* path as it was: the document does not hold the record that save was given.
C37_FailedSaveLeavesDocument ==
    \A p \in Procs :
        (pc[p] = "done" /\ result[p] \notin {"ok", "running"})
          => /\ tokenFile.kind = "doc" => tokenFile.tokens # data[p]
             /\ ~(/\ tokenFile.kind = "doc"
                  /\ p \in DOMAIN tokenFile.tokens
                  /\ tokenFile.tokens[p] = StorageOf(p))

-----------------------------------------------------------------------------
(* Claims about the lock, checked under SpecLock *)

\* A process that has not called acquireFileLock yet.
NotStarted(q) == pc[q] = "create" /\ i[q] = 0

\* Process p is the only one that has called acquireFileLock.
Alone(p) == \A q \in Procs \ {p} : NotStarted(q)

C14_TimeoutAfterFiftyAttempts ==
    /\ [](\A p \in Procs :
            result[p] = "lock_timeout"
                => /\ pc[p] = "done"
                   /\ i[p] = maxRetries
                   /\ slept[p] + removed[p] = maxRetries
                   /\ ~(marker.exists /\ marker.owner = p))
    /\ [][\A p \in Procs :
            (marker.exists /\ ~marker.stale /\ pc[p] \in {"create", "stat"}
                 /\ pc'[p] # pc[p])
                => /\ marker' = marker
                   /\ removed'[p] = removed[p]
                   /\ pc[p] = "create" => pc'[p] = "stat"
                   /\ pc[p] = "stat" => (slept'[p] = slept[p] + 1
                                         /\ i'[p] = i[p] + 1)]_vars

C14_Witness ==
    \E p \in Procs :
        /\ result[p] = "lock_timeout"
        /\ slept[p] = maxRetries
        /\ removed[p] = 0
        /\ marker.exists
        /\ ~marker.stale

\* C15: while a process holds a lock it acquired less than 30 seconds ago, no
\* acquire of another process returns the lock.
C15_NoSuccessWhileHeld ==
    [][\A p, q \in Procs :
          (p # q /\ InCriticalSection(q) /\ q \in fresh /\ pc[p] = "create")
              => pc'[p] # "read"]_vars

\* C16: release returns with no marker left at the path and the token file
\* untouched; releasing the lock's own marker returns no error, and a second
\* release that finds no marker returns the removal's error.
C16_ReleaseRemovesMarker ==
    /\ [][\A p \in Procs :
            (pc[p] \in {"read", "released"} /\ pc'[p] # pc[p])
                => /\ ~marker'.exists
                   /\ tokenFile' = tokenFile
                   /\ pc'[p] = IF pc[p] = "read" THEN "released"
                               ELSE "released again"]_vars
    /\ [][\A p \in Procs :
            (pc[p] = "read" /\ pc'[p] = "released" /\ marker = Marker(p, FALSE))
                => releaseErr'[p] = "nil"]_vars
    /\ [][\A p \in Procs :
            (pc[p] = "released" /\ pc'[p] = "released again" /\ ~marker.exists)
                => releaseErr'[p] = "not exist"]_vars

C16_Witness ==
    \E p \in Procs :
        /\ pc[p] = "released again"
        /\ releaseErr[p] = "not exist"
        /\ tokenFile = initialFile
        /\ ~marker.exists

\* C27: deleting stale markers takes nothing from the attempt budget: an
\* acquire reports the timeout only after 50 waits, however many stale
\* markers it has deleted.
C27_ReclaimKeepsBudget ==
    \A p \in Procs : result[p] = "lock_timeout" => slept[p] = maxRetries

\* C34: a release deletes no marker that another acquire created: when the
\* marker at the path is not the one the releasing handle's acquire created,
\* the release leaves it in place.
C34_ReleaseSparesOthers ==
    [][\A p \in Procs :
          (pc[p] \in {"read", "released"} /\ pc'[p] \in {"released", "released again"}
           /\ pc'[p] # pc[p] /\ marker.exists /\ marker.owner # p)
            => marker' = marker]_vars

\* C35: a waiter deletes only a marker that is older than 30 seconds at the
\* moment of the delete: its os.Remove never takes away a marker that is not
\* stale.
C35_DeletesOnlyStale ==
    [][\A p \in Procs :
          (pc[p] = "remove" /\ pc'[p] # "remove" /\ marker.exists /\ ~marker.stale)
            => marker' = marker]_vars

-----------------------------------------------------------------------------
(* Claims about one call of acquireFileLock, checked under SpecAcquire *)

InAcquire(p) == pc[p] \in {"create", "stat", "remove"}

\* C36: a call of acquireFileLock ends, whatever the other processes do: it
\* returns the lock, the timeout error or the error of a system call; it makes
\* at most 50 create attempts, each attempt taking the loop counter one
\* further, and the timeout comes exactly when the counter reaches 50.
C36_AcquireTerminates ==
    /\ [](\A p \in Procs : InAcquire(p) => i[p] < maxRetries)
    /\ [](\A p \in Procs : slept[p] + removed[p] <= maxRetries)
    /\ [][\A p \in Procs :
            (pc[p] = "create" /\ pc'[p] = "create") => i'[p] = i[p]]_vars
    /\ [][\A p \in Procs :
            (pc[p] \in {"stat", "remove"} /\ pc'[p] = "create") => i'[p] = i[p] + 1]_vars
    /\ [](\A p \in Savers :
            pc[p] = "done"
              => /\ result[p] \in {"lock_timeout", "failed to acquire file lock",
                                   "failed to remove stale lock file"}
                 /\ result[p] = "lock_timeout" <=> i[p] = maxRetries)
    /\ \A p \in Savers : <>(pc[p] \in {"read", "done"})
    /\ [][\A p \in Savers : ~InAcquire(p) => pc'[p] = pc[p]]_vars

C36_Witness ==
    \E p \in Savers :
        /\ pc[p] = "done"
        /\ result[p] = "lock_timeout"
        /\ removed[p] = maxRetries
        /\ slept[p] = 0
        /\ ioErr[p] = {}

-----------------------------------------------------------------------------
(* Claims about a save whose system calls can fail, checked under SpecSave *)

\* C24: once the context of run is done, the wait for the store lock inside
\* a save is given up: acquireFileLock does not sleep again.
C24_LockWaitRespectsCancel ==
    [][ctxErr # "none" => \A p \in Procs : slept'[p] <= slept[p]]_vars

\* C28: a system call of acquireFileLock that fails for any reason other than
\* "exists" on the create and "not exist" on the delete makes it return that
\* error at once, with no wait and no further attempt; this includes the
\* os.Stat that reads the age of a marker that is there.
C28_AcquireErrorsReturnAtOnce ==
    [][\A p \in Procs :
          (ioErr'[p] # ioErr[p] /\ ioErr'[p] \ ioErr[p] \subseteq {"create", "stat", "remove"})
            => /\ pc'[p] = "done"
               /\ result'[p] \in {"failed to acquire file lock",
                                  "failed to remove stale lock file",
                                  "failed to inspect lock file"}
               /\ slept'[p] = slept[p]
               /\ i'[p] = i[p]]_vars

\* C29: when the rename fails, save leaves the token file alone and deletes
\* the temp file; it returns the rename error when the delete succeeded and
\* an error naming both failures when the delete failed too, and releases the
\* lock with that result.
C29_RenameFailureCleansUp ==
    /\ [][\A p \in Procs :
            (pc[p] = "rename" /\ pc'[p] # "rename" /\ result'[p] # "ok")
              => /\ pc'[p] = "cleanup"
                 /\ UNCHANGED <<tokenFile, tempFile, result>>]_vars
    /\ [][\A p \in Procs :
            (pc[p] = "cleanup" /\ pc'[p] # "cleanup")
              => /\ pc'[p] = "release"
                 /\ tokenFile' = tokenFile
                 /\ IF tempFile.kind # "absent" /\ tempFile'.kind = "absent"
                    THEN result'[p] = "rename_failed"
                    ELSE result'[p] = "rename_and_remove_failed"
                         /\ tempFile' = tempFile]_vars
    /\ [](\A p \in Procs :
            (pc[p] = "done" /\ "rename" \in ioErr[p])
              => /\ result[p] = IF "remove temp" \in ioErr[p]
                                THEN "rename_and_remove_failed" ELSE "rename_failed"
                 /\ tokenFile = initialFile)

C29_Witness ==
    \E p \in Procs :
        /\ pc[p] = "done"
        /\ ioErr[p] = {"rename"}
        /\ result[p] = "rename_failed"
        /\ tempFile = Absent
        /\ tokenFile = initialFile
        /\ tokenFile.kind = "doc"
        /\ ~marker.exists

\* A save of process p that has returned after acquiring the lock.
ReturnedAfterAcquire(p) ==
    /\ pc[p] = "done"
    /\ result[p] \in {"ok", "failed to write temp file", "rename_failed",
                      "rename_and_remove_failed"}

KeyOf(p) == IF arg[p].ClientID = NoClientID THEN p ELSE arg[p].ClientID

\* C32: the record a save writes carries as client id the key it is stored
\* under, in the document it prepares and in the document it publishes; a
\* record passed without client id is stored under the client id of the
\* process and carries it; every other record of the document is as read.
C32_ClientIdIsKey ==
    /\ \A p \in Procs :
          pc[p] \in {"open", "write", "rename", "cleanup"}
            => /\ KeyOf(p) # NoClientID
               /\ DOMAIN data[p] = DOMAIN snap[p] \cup {KeyOf(p)}
               /\ data[p][KeyOf(p)] = TokenStorage(arg[p].AccessToken, KeyOf(p))
               /\ \A c \in DOMAIN data[p] : data[p][c].ClientID = c
    /\ \A p \in Savers :
          result[p] = "ok"
            => /\ tokenFile.kind = "doc"
               /\ KeyOf(p) \in DOMAIN tokenFile.tokens
               /\ NoClientID \notin DOMAIN tokenFile.tokens
               /\ \A c \in DOMAIN tokenFile.tokens : tokenFile.tokens[c].ClientID = c

C32_Witness ==
    \E p \in Savers :
        /\ result[p] = "ok"
        /\ pc[p] = "done"
        /\ arg[p].ClientID = NoClientID
        /\ DOMAIN tokenFile.tokens = {OtherClient, p}
        /\ tokenFile.tokens[p] = TokenStorage(p, p)

-----------------------------------------------------------------------------
(* Claims about the polling engine, checked under SpecPoll *)

Transient == {Outcome("oauth_error", "authorization_pending"),
              Outcome("oauth_error", "slow_down")}

\* A step in which exchangeDeviceCode returns and the loop body handles it.
HandledStep == loc = "exchange" /\ loc' # "exchange"

\* C5: handling authorization_pending or slow_down never ends polling: the
\* engine returns nothing, goes back to waiting for the next tick, and never
\* returns either of the two as its error.
C5_TransientNeverEnds ==
    /\ [][(HandledStep /\ lastOutcome' \in Transient)
             => (loc' = "select" /\ retErr' = NilErr /\ retToken' = 0)]_vars
    /\ [](retErr.detail \notin {"authorization_pending", "slow_down"})

\* C6: after k >= 1 slow_down responses from the initial interval I the
\* ticker runs at min(I * 1.5^k, 60s).
C6_GeometricBackoff ==
    (loc \in {"select", "exchange", "returned"} /\ backoffMultiplier >= 1)
        => tickerPeriod = ScaleCapped(InitialPollInterval(interval),
                                      backoffMultiplier, maxPollInterval)

C8_DeniedAndExpiredEndPolling ==
    /\ [][(HandledStep /\ lastOutcome' = Outcome("oauth_error", "access_denied"))
             => (loc' = "returned" /\ retErr' = DeniedErr /\ retToken' = 0
                 /\ attempts' = attempts)]_vars
    /\ [][(HandledStep /\ lastOutcome' = Outcome("oauth_error", "expired_token"))
             => (loc' = "returned" /\ retErr' = ExpiredErr /\ retToken' = 0
                 /\ attempts' = attempts)]_vars
    /\ [](retErr = DeniedErr
            => (EngineState = "Denied"
                /\ lastOutcome = Outcome("oauth_error", "access_denied")))
    /\ [](retErr = ExpiredErr
            => (EngineState = "Expired"
                /\ lastOutcome = Outcome("oauth_error", "expired_token")))
    /\ [][loc = "returned" => (loc' = "returned" /\ attempts' = attempts)]_vars

C8_Witness ==
    /\ EngineState = "Denied"
    /\ attempts = 3
    /\ backoffMultiplier = 1

\* C9: once the context has ended while the engine polls, the engine returns
\* the context's error and nothing else.
C9_CancellationWins ==
    (loc = "returned" /\ ctxErr # "none") => retErr = Err("ctx", ctxErr)

\* C10: when every exchange before the n-th returned authorization_pending
\* (no slow_down has been handled), the engine has not returned before the
\* n-th exchange returns, and a token returned by the n-th exchange makes it
\* return that token with no error after exactly n attempts.
C10_SucceedsOnNthAttempt ==
    (attempts >= 1 /\ backoffMultiplier = 0 /\ ctxErr = "none")
        => /\ lastOutcome \in {NoOutcome, Outcome("oauth_error", "authorization_pending")}
              => loc \in {"select", "exchange"}
           /\ lastOutcome = Outcome("token", "none")
              => (EngineState = "Succeeded" /\ retToken = attempts)

C10_Witness ==
    /\ EngineState = "Succeeded"
    /\ retToken = 3
    /\ attempts = 3
    /\ backoffMultiplier = 0
    /\ ctxErr = "none"

\* C22: an error code other than authorization_pending, slow_down,
\* expired_token and access_denied ends polling at once with the
\* authorization-failed error carrying that code, and any other error of the
\* exchange (transport, body that is no JSON, invalid token response) ends it
\* at once with the exchange-failed error wrapping its cause; both are Failed.
C22_OtherErrorsFail ==
    /\ [][(HandledStep /\ lastOutcome'.type = "oauth_error"
              /\ lastOutcome'.detail \notin {"authorization_pending", "slow_down",
                                             "expired_token", "access_denied"})
             => /\ loc' = "returned"
                /\ retErr' = Err("authorization failed", lastOutcome'.detail)
                /\ retToken' = 0
                /\ attempts' = attempts]_vars
    /\ [][(HandledStep /\ lastOutcome'.type \in {"retrieve_error", "failure"})
             => /\ loc' = "returned"
                /\ retErr' = Err("token exchange failed", lastOutcome'.detail)
                /\ retToken' = 0
                /\ attempts' = attempts]_vars
    /\ [](retErr.kind \in {"authorization failed", "token exchange failed"}
            => EngineState = "Failed")
    /\ [][loc = "returned" => UNCHANGED <<loc, attempts, retErr>>]_vars

C22_Witness ==
    /\ EngineState = "Failed"
    /\ retErr = Err("authorization failed", "invalid_client")
    /\ attempts = 2
    /\ backoffMultiplier = 1

\* The poll interval after k slow_down responses from the server's interval
\* iv, as long as no conversion has overflowed.
RECURSIVE IntervalAfter(_, _)
IntervalAfter(iv, k) ==
    IF k = 0 THEN InitialPollInterval(iv)
    ELSE Min(ScaleCapped(IntervalAfter(iv, k - 1), k, maxPollInterval), maxPollInterval)

\* C30: handling authorization_pending changes neither pollInterval nor
\* backoffMultiplier nor the ticker, and while the engine has not crashed the
\* poll interval depends only on the server's interval and on the number of
\* slow_down responses so far, wherever the authorization_pending responses
\* fell among them.
C30_PendingLeavesBackoff ==
    /\ [][(HandledStep /\ lastOutcome' = Outcome("oauth_error", "authorization_pending"))
             => UNCHANGED <<pollInterval, backoffMultiplier, tickerPeriod>>]_vars
    /\ [](loc \in {"select", "exchange", "returned"}
            => /\ pollInterval = IntervalAfter(interval, backoffMultiplier)
               /\ tickerPeriod = pollInterval
               /\ backoffMultiplier = slowDownsNotified)

C30_Witness ==
    /\ loc = "select"
    /\ lastOutcome = Outcome("oauth_error", "authorization_pending")
    /\ backoffMultiplier = 2
    /\ attempts = 5
    /\ interval = 0
    /\ pollInterval = 16875000

\* C31: every slow_down response is followed, before the next exchange, by
\* exactly one call of d.PollSlowDown carrying the poll interval as that
\* response left it, and no other response is followed by such a call.
C31_OneNoticePerSlowDown ==
    /\ [][HandledStep
            => IF lastOutcome' = Outcome("oauth_error", "slow_down")
               THEN /\ slowDownsNotified' = slowDownsNotified + 1
                    /\ notifiedInterval' = pollInterval'
                    /\ notifiedInterval' = tickerPeriod'
               ELSE UNCHANGED <<slowDownsNotified, notifiedInterval>>]_vars
    /\ [][~HandledStep => UNCHANGED <<slowDownsNotified, notifiedInterval>>]_vars

\* C39: whatever interval the server sent, once pollForTokenWithProgress has
\* set its poll interval the interval is strictly positive, 5s for an
\* interval of zero, and it stays strictly positive.
C39_PositivePollInterval ==
    loc # "start"
      => /\ pollInterval > 0
         /\ (interval = 0 /\ backoffMultiplier = 0) => pollInterval = 5 * Second

-----------------------------------------------------------------------------
(* Claims about the orchestrator, checked under SpecRun *)

\* A step in which a call of refreshAccessToken returns.
RefreshReturns == refreshes' = refreshes + 1

\* A step in which a call of performDeviceFlow returns.
FlowReturns == flows' = flows + 1

\* The refresh token a refresh called with r must keep: r when the response
\* carries none, the response's otherwise.
ExpectedRefreshToken(r, body) == IF body.RefreshToken = "" THEN r ELSE body.RefreshToken

\* The record the token file holds for client id c (NoRecord when none).
Persisted(f, c) ==
    IF f.kind = "doc" /\ c \in DOMAIN f.tokens THEN f.tokens[c] ELSE NoRecord

FailsValidation(body) ==
    \/ body.AccessToken = ""
    \/ Len(body.AccessToken) < 10
    \/ body.ExpiresIn <= 0
    \/ body.TokenType \notin {"", "Bearer"}

\* C12: a refresh or a device flow whose token response fails validation
\* returns an error and calls no save, and every record of the token file is
\* one an earlier run left there or has an access token of 10 characters or
\* more, a token type that is empty or Bearer and an expiry in the future of
\* its response.
C12_NoInvalidRecordSaved ==
    /\ [][((RefreshReturns \/ FlowReturns) /\ lastReply'.kind = "ok"
              /\ FailsValidation(lastReply'.body))
             => /\ lastErr' # "nil"
                /\ saveCalls' = saveCalls
                /\ tokenFile' = tokenFile]_vars
    /\ [](tokenFile.kind = "doc"
            => \A c \in DOMAIN tokenFile.tokens :
                  \/ tokenFile.tokens[c] = Persisted(initialFile, c)
                  \/ /\ Len(tokenFile.tokens[c].AccessToken) >= 10
                     /\ tokenFile.tokens[c].TokenType \in {"", "Bearer"}
                     /\ tokenFile.tokens[c].ExpiresAt > Now)

C12_Witness ==
    /\ refreshes = 1
    /\ flows = 0
    /\ lastReply.kind = "ok"
    /\ lastReply.body.AccessToken = "short"
    /\ lastErr = "invalid token response"
    /\ saveCalls = 0
    /\ tokenFile = initialFile

\* C17: loadTokens returns the not-exist error for a missing file, a
\* no-tokens-found error for a file that parses and has no record of the
\* client, the parse error (and only then) for a file that does not parse,
\* and the stored record with no error when the record is there.
C17_LoadOutcomes ==
    rloc \notin {"idle", "load"}
        => /\ initialFile.kind = "absent"
                => (loadErr = "not exist" /\ cached = NoRecord)
           /\ Unparsable(initialFile)
                => (loadErr = "failed to parse token file" /\ cached = NoRecord)
           /\ ~Unparsable(initialFile) => loadErr # "failed to parse token file"
           /\ initialFile.kind = "nokey"
                => (loadErr = "no tokens found in token file" /\ cached = NoRecord)
           /\ (initialFile.kind = "doc" /\ clientID \notin DOMAIN initialFile.tokens)
                => (loadErr = "no tokens found for client_id" /\ cached = NoRecord)
           /\ (initialFile.kind = "doc" /\ clientID \in DOMAIN initialFile.tokens)
                => (loadErr = "nil" /\ cached = initialFile.tokens[clientID])

C17_Witness ==
    /\ rloc = "flow"
    /\ initialFile.kind = "doc"
    /\ loadErr = "no tokens found for client_id"
    /\ flows = 0

\* C20: a loaded record that has not expired is used with no refresh and no
\* device flow; a loaded record that has expired gets one refresh before any
\* device flow, and a device flow follows only when that refresh failed; with
\* no record loaded a device flow runs with no refresh.
C20_StartupChain ==
    /\ [](rloc \in {"refresh", "flow", "verify"}
            => /\ (cached # NoRecord /\ Now < cached.ExpiresAt)
                    => (rloc = "verify" /\ refreshes = 0 /\ flows = 0
                        /\ runStorage = cached)
               /\ (cached # NoRecord /\ Now >= cached.ExpiresAt)
                    => /\ rloc = "refresh" => (refreshes = 0 /\ flows = 0)
                       /\ rloc = "flow" => (refreshes = 1 /\ flows = 0
                                            /\ lastErr # "nil")
                       /\ rloc = "verify" => (refreshes = 1 /\ flows <= 1)
               /\ cached = NoRecord
                    => /\ rloc # "refresh"
                       /\ refreshes = 0
                       /\ rloc = "flow" => flows = 0
                       /\ rloc = "verify" => flows = 1)
    /\ [][(rloc = "refresh" /\ rloc' # "refresh")
             => /\ lastErr' = "nil" => (rloc' = "verify" /\ flows' = 0)
                /\ lastErr' # "nil" => rloc' = "flow"]_vars

C20_Witness ==
    /\ rloc = "verify"
    /\ cached # NoRecord
    /\ refreshes = 1
    /\ flows = 0
    /\ runStorage.AccessToken = "access-token-2"

\* C21 as stated: in the startup path and in the path after a 401 alike, a
\* refresh that fails is followed by a device flow exactly when its error is
\* ErrRefreshTokenExpired.
C21_SameFallbackPolicy ==
    [][(RefreshReturns /\ lastErr' # "nil")
         => (rloc' \in {"flow", "reauth"} <=> lastErr' = "ErrRefreshTokenExpired")]_vars

\* C21: a failed refresh at startup is followed by a device flow whatever its
\* error; a failed refresh after a 401 of the first API call is followed by a
\* device flow exactly when its error is ErrRefreshTokenExpired, and any other
\* error ends the run with the failure shown and no error returned; a failed
\* refresh after a 401 of the second API call ends the run with a fatal error,
\* ErrRefreshTokenExpired included.
C21_FallbackByPath ==
    /\ [][(RefreshReturns /\ lastErr' # "nil")
             => /\ rloc = "refresh" => rloc' = "flow"
                /\ rloc = "api refresh"
                     => IF lastErr' = "ErrRefreshTokenExpired"
                        THEN rloc' = "reauth" /\ lastNote' = "ReAuthRequired"
                        ELSE /\ rloc' = "returned"
                             /\ runErr' = "nil"
                             /\ lastNote' = "APICallFailed"
                /\ rloc = "api2 refresh"
                     => /\ rloc' = "returned"
                        /\ runErr' \notin {"nil", "none"}
                        /\ lastNote' = "Fatal"
                /\ flows' = flows]_vars
    /\ [][(rloc \in {"flow", "reauth"}) => FlowReturns]_vars

C21_Witness ==
    /\ rloc = "reauth"
    /\ refreshes = 2
    /\ flows = 1
    /\ cached # NoRecord
    /\ lastErr = "ErrRefreshTokenExpired"

\* C23: validateTokenResponse returns an error exactly when the access token
\* is empty or shorter than 10 characters, or expiresIn is not positive, or
\* tokenType is neither empty nor "Bearer"; of several failing rules the one
\* reported is the first in that order.
C23_FirstFailingRule ==
    /\ lastReply.kind # "ok" => lastValidation = "none"
    /\ lastReply.kind = "ok"
         => LET b == lastReply.body
            IN  /\ lastValidation # "nil" <=> FailsValidation(b)
                /\ lastValidation = "access_token is empty" <=> b.AccessToken = ""
                /\ lastValidation = "access_token is too short"
                     <=> (b.AccessToken # "" /\ Len(b.AccessToken) < 10)
                /\ lastValidation = "expires_in must be positive"
                     <=> (Len(b.AccessToken) >= 10 /\ b.ExpiresIn <= 0)
                /\ lastValidation = "unexpected token_type"
                     <=> (Len(b.AccessToken) >= 10 /\ b.ExpiresIn > 0
                          /\ b.TokenType \notin {"", "Bearer"})

C23_Witness ==
    /\ lastReply.kind = "ok"
    /\ lastReply.body.AccessToken = "nine-char"
    /\ lastReply.body.ExpiresIn = -1
    /\ lastReply.body.TokenType = "MAC"
    /\ lastValidation = "access_token is too short"

\* A step in which a call of saveTokens returns an error.
SaveFails == saveCalls' = saveCalls + 1 /\ lastSave' = "failed"

Rank(l) ==
    CASE l = "load" -> 1 [] l = "refresh" -> 2 [] l = "flow" -> 3 [] l = "verify" -> 4
      [] l = "api" -> 5 [] l = "api refresh" -> 6 [] l = "api retry" -> 7
      [] l = "reauth" -> 8 [] l = "api2" -> 9 [] l = "api2 refresh" -> 10
      [] l = "api2 retry" -> 11 [] OTHER -> 12

\* C38: a run makes at most two device flows and at most three refreshes;
\* one makeAPICallWithAutoRefresh makes at most one refresh and at most two
\* API requests, and its retry ends the call whatever the answer, with an
\* error when the answer is 401 again; every step takes run further, so it
\* ends.
C38_BoundedFallback ==
    /\ [](flows <= 2 /\ refreshes <= 3)
    /\ [](apiCall.requests <= 2 /\ apiCall.refreshes <= 1)
    /\ [][(rloc \in {"api retry", "api2 retry"} /\ rloc' # rloc)
            => /\ rloc' = "returned"
               /\ refreshes' = refreshes
               /\ flows' = flows
               /\ lastNote' \in {"APICallOK", "APICallFailed", "Fatal"}]_vars
    /\ [][Rank(rloc') > Rank(rloc)]_vars

C38_Witness ==
    /\ rloc = "returned"
    /\ flows = 2
    /\ refreshes = 3
    /\ apiCall = [requests |-> 2, refreshes |-> 1]
    /\ lastNote = "Fatal"
    /\ runErr = "API call failed with status"

\* C40: once the TUI model is in stateSuccess or stateError no later message
\* of the flow changes its state, for the messages run sends.
C40_FinalStatesAbsorb == ~leftFinal

====
